---- MODULE Spec2Model ----
(***************************************************************************)
(* The Evernote skill's section editor (update-note.ts) and section reader *)
(* (read-note.ts), run against a note store.                               *)
(*                                                                         *)
(* A document is a sequence of one-character strings, so that the regular  *)
(* expressions of the scripts are evaluated character by character, with   *)
(* JavaScript's leftmost, greedy, backtracking semantics.  Offsets are the *)
(* 0-based offsets of String.prototype.slice / match.index.                *)
(***************************************************************************)
EXTENDS Integers, Sequences, FiniteSets, TLC

\* ------------------------------------------------------------------ bounds

\* Number of building blocks an initial note body is made of.
MaxPieces == 3

\* The greatest number of markdown blocks in a content text.
MaxBlocks == 2

\* The greatest number of command-line arguments.
MaxArgs == 3

\* The greatest number of names in a --add-tags list.
MaxTags == 2

\* The greatest number of editing calls made on one document.
MaxEdits == 2

\* ------------------------------------------------------- strings (JS String)

Min(S) == CHOOSE x \in S : \A y \in S : x <= y
Max(S) == CHOOSE x \in S : \A y \in S : x >= y

\* s.slice(from, to) for 0 <= from (0-based, end exclusive).
\* A negative end counts from the end of the string, as in JavaScript.
Slice(s, from, to) ==
  LET t == IF to < 0 THEN (IF Len(s) + to < 0 THEN 0 ELSE Len(s) + to)
           ELSE IF to > Len(s) THEN Len(s) ELSE to
  IN  IF from >= t THEN << >> ELSE SubSeq(s, from + 1, t)

\* s.slice(from)
SliceFrom(s, from) == Slice(s, from, Len(s))

\* TRUE iff the literal lit occurs in s at 0-based offset i (case-sensitive).
OccursAt(s, lit, i) ==
  /\ i >= 0
  /\ i + Len(lit) <= Len(s)
  /\ \A k \in 1..Len(lit) : s[i + k] = lit[k]

\* s.indexOf(lit): the least offset of lit in s, -1 when there is none.
IndexOf(s, lit) ==
  LET hits == { i \in 0..Len(s) : OccursAt(s, lit, i) }
  IN  IF hits = {} THEN -1 ELSE CHOOSE i \in hits : \A j \in hits : i <= j

\* s.lastIndexOf(lit): the greatest offset of lit in s, -1 when there is none.
LastIndexOf(s, lit) ==
  LET hits == { i \in 0..Len(s) : OccursAt(s, lit, i) }
  IN  IF hits = {} THEN -1 ELSE CHOOSE i \in hits : \A j \in hits : i >= j

RECURSIVE ReplaceAll(_, _, _)
\* s.replace(/ch/g, rep) for a one-character pattern ch.
ReplaceAll(s, ch, rep) ==
  IF s = << >> THEN << >>
  ELSE IF Len(s) = 1 THEN (IF s[1] = ch THEN rep ELSE s)
  ELSE LET h == Len(s) \div 2
       IN  ReplaceAll(SubSeq(s, 1, h), ch, rep) \o ReplaceAll(SubSeq(s, h + 1, Len(s)), ch, rep)

\* ------------------------------------------------------ regular expressions

\* Case folding of the i flag, on the letters the model uses.
Lower(ch) ==
  CASE ch = "A" -> "a"
    [] ch = "B" -> "b"
    [] ch = "H" -> "h"
    [] OTHER    -> ch

\* Character classes: "ANY" is '.', "WS" is \s, "NOTGT" is [^>], "NOTLT" is
\* [^<]; any other class is a literal character, compared under the i flag.
ClassMatch(cls, ch) ==
  CASE cls = "ANY"   -> ch \notin {"\n", "\r"}
    [] cls = "WS"    -> ch \in {" ", "\t", "\n", "\r"}
    [] cls = "NOTGT" -> ch # ">"
    [] cls = "NOTLT" -> ch # "<"
    [] OTHER         -> Lower(ch) = Lower(cls)

\* A pattern is a sequence of items [c |-> class, q |-> "1" | "*" | "+"].
Lit(str) == [ k \in 1..Len(str) |-> [c |-> str[k], q |-> "1"] ]
Star(cls) == << [c |-> cls, q |-> "*"] >>

RECURSIVE Run(_, _, _)
\* The number of consecutive characters of s from 1-based position i that
\* are in class cls (what a greedy quantifier consumes first).
Run(cls, s, i) ==
  IF i <= Len(s) /\ ClassMatch(cls, s[i]) THEN 1 + Run(cls, s, i + 1) ELSE 0

RECURSIVE MatchFrom(_, _, _, _)
RECURSIVE TryRep(_, _, _, _, _, _)
\* Backtracking match of items k.. of pat against s from 1-based position
\* i: the position after the match the engine finds first, 0 on failure.
MatchFrom(pat, k, s, i) ==
  IF k > Len(pat) THEN i
  ELSE IF pat[k].q = "1"
       THEN IF i <= Len(s) /\ ClassMatch(pat[k].c, s[i])
            THEN MatchFrom(pat, k + 1, s, i + 1)
            ELSE 0
       ELSE TryRep(pat, k, s, i, Run(pat[k].c, s, i), IF pat[k].q = "+" THEN 1 ELSE 0)

\* Greedy repetition: n characters first, then n-1, ... down to lo.
TryRep(pat, k, s, i, n, lo) ==
  IF n < lo THEN 0
  ELSE LET r == MatchFrom(pat, k + 1, s, i + n)
       IN  IF r # 0 THEN r ELSE TryRep(pat, k, s, i, n - 1, lo)

NoMatch == [found |-> FALSE, index |-> -1, length |-> 0]

RECURSIVE SearchRange(_, _, _, _)
\* The leftmost match that starts at a 1-based position in lo..hi.
SearchRange(pat, s, lo, hi) ==
  IF lo > hi THEN NoMatch
  ELSE IF lo = hi
       THEN LET r == MatchFrom(pat, 1, s, lo)
            IN  IF r # 0 THEN [found |-> TRUE, index |-> lo - 1, length |-> r - lo]
                ELSE NoMatch
       ELSE LET mid  == (lo + hi) \div 2
                left == SearchRange(pat, s, lo, mid)
            IN  IF left.found THEN left ELSE SearchRange(pat, s, mid + 1, hi)

\* The leftmost match that starts at 1-based position i or later.
SearchFrom(pat, s, i) == SearchRange(pat, s, i, Len(s) + 1)

\* s.match(pat) without the g flag: the leftmost match; index is
\* match.index and length is match[0].length.
Match(s, pat) == SearchFrom(pat, s, 1)

\* ------------------------------------------------------------ the markup

H1Open    == << "<", "h", "1" >>
H1Close   == << "<", "/", "h", "1", ">" >>
EndNote   == << "<", "/", "e", "n", "-", "n", "o", "t", "e", ">" >>
DivOpen   == << "<", "d", "i", "v", ">" >>
DivClose  == << "<", "/", "d", "i", "v", ">" >>
Br        == << "<", "b", "r", "/", ">" >>
AmpEntity == << "&", "a", "m", "p", ";" >>
LtEntity  == << "&", "l", "t", ";" >>
GtEntity  == << "&", "g", "t", ";" >>

\* /<h1[^>]*>/i
NextH1Regex == Lit(H1Open) \o Star("NOTGT") \o Lit(<< ">" >>)

\* /<\/en-note>/i
EndNoteRegex == Lit(EndNote)

\* /<[^>]*>/
TagRegex == Lit(<< "<" >>) \o Star("NOTGT") \o Lit(<< ">" >>)

\* ------------------------------------------- the section name as a pattern

\* new RegExp(`...${sectionName}...`) takes the name as pattern source.  Of
\* the characters with a meaning in patterns the model has '.', '+' and
\* '('.  The constructor throws a SyntaxError for an unterminated group and
\* for a '+' with nothing to repeat (after \s* or after another '+').
RegexValid(name) ==
  /\ \A k \in 1..Len(name) : name[k] # "("
  /\ \A k \in 1..Len(name) : name[k] = "+" => (k > 1 /\ name[k - 1] # "+")

RECURSIVE NameItems(_, _)
\* The items of a valid name from position k on: '.' is any character, a
\* '+' makes the item before it a greedy one-or-more, the rest is literal.
NameItems(name, k) ==
  IF k > Len(name) THEN << >>
  ELSE LET cls  == IF name[k] = "." THEN "ANY" ELSE name[k]
           plus == k < Len(name) /\ name[k + 1] = "+"
       IN  << [c |-> cls, q |-> IF plus THEN "+" ELSE "1"] >>
             \o NameItems(name, IF plus THEN k + 2 ELSE k + 1)

\* `<h1[^>]*>\s*${sectionName}\s*</h1>` with the i flag.
HeaderRegex(sectionName) ==
  NextH1Regex \o Star("WS") \o NameItems(sectionName, 1) \o Star("WS") \o Lit(H1Close)

\* ---------------------------------------------------------- update-note.ts

\* Mutation: the replacement of '<' is left out.
EscapeContent_NoLt(newContent) ==
  ReplaceAll(ReplaceAll(ReplaceAll(newContent,
    "&", AmpEntity), ">", GtEntity), "\n", Br)

\* The escaping each of the three editing functions applies to newContent.
EscapeContent(newContent) ==
  ReplaceAll(ReplaceAll(ReplaceAll(ReplaceAll(newContent,
    "&", AmpEntity), "<", LtEntity), ">", GtEntity), "\n", Br)

\* `<div>${escapedContent}</div>`
DivBlock(escapedContent) == DivOpen \o escapedContent \o DivClose

Thrown(kind) == [ok |-> FALSE, err |-> kind, val |-> << >>]
Returned(doc) == [ok |-> TRUE, err |-> "none", val |-> doc]

\* Mutation: the lookup takes the last heading that matches, not the first.
FindHeader_LastMatch(content, sectionName) ==
  IF ~RegexValid(sectionName)
  THEN [ok |-> FALSE, found |-> FALSE, index |-> -1, length |-> 0]
  ELSE LET pat    == HeaderRegex(sectionName)
           starts == { i \in 1..(Len(content) + 1) : MatchFrom(pat, 1, content, i) # 0 }
       IN  IF starts = {}
           THEN [ok |-> TRUE, found |-> FALSE, index |-> -1, length |-> 0]
           ELSE [ok |-> TRUE, found |-> TRUE, index |-> Max(starts) - 1,
                 length |-> MatchFrom(pat, 1, content, Max(starts)) - Max(starts)]

\* The section lookup, written out three times in the scripts:
\* new RegExp(...) and content.match(headerRegex).  ok is FALSE when the
\* constructor throws.
FindHeader(content, sectionName) ==
  IF ~RegexValid(sectionName)
  THEN [ok |-> FALSE, found |-> FALSE, index |-> -1, length |-> 0]
  ELSE LET m == Match(content, HeaderRegex(sectionName))
       IN  [ok |-> TRUE, found |-> m.found, index |-> m.index, length |-> m.length]

\* Mutation: the block goes in front of the heading (match.index).
prependToSection_BeforeHeader(content, sectionName, newContent) ==
  LET match == Match(content, HeaderRegex(sectionName))
  IN  IF ~RegexValid(sectionName) THEN Thrown("SyntaxError")
      ELSE IF ~match.found THEN Thrown("SectionNotFound")
           ELSE Returned(Slice(content, 0, match.index)
                           \o DivBlock(EscapeContent(newContent))
                           \o SliceFrom(content, match.index))

prependToSection(content, sectionName, newContent) ==
  LET match == FindHeader(content, sectionName)
  IN  IF ~match.ok THEN Thrown("SyntaxError")
      ELSE IF ~match.found THEN Thrown("SectionNotFound")
           ELSE LET insertIndex == match.index + match.length
                    before == Slice(content, 0, insertIndex)
                    after  == SliceFrom(content, insertIndex)
                IN  Returned(before \o DivBlock(EscapeContent(newContent)) \o after)

\* Mutation: the search for the next section is left out; the block goes
\* before the closing tag or at the end of the string.
appendToSection_SkipsNextSection(content, sectionName, newContent) ==
  LET match == Match(content, HeaderRegex(sectionName))
  IN  IF ~RegexValid(sectionName) THEN Thrown("SyntaxError")
      ELSE IF ~match.found THEN Thrown("SectionNotFound")
           ELSE LET insertIndex == match.index + match.length
                    endNoteMatch == Match(SliceFrom(content, insertIndex), EndNoteRegex)
                    insertPosition ==
                      IF endNoteMatch.found THEN insertIndex + endNoteMatch.index
                      ELSE Len(content)
                IN  Returned(Slice(content, 0, insertPosition)
                               \o DivBlock(EscapeContent(newContent))
                               \o SliceFrom(content, insertPosition))

\* Mutation: the block goes directly after the heading (insertIndex).
appendToSection_AfterHeader(content, sectionName, newContent) ==
  LET match == Match(content, HeaderRegex(sectionName))
  IN  IF ~RegexValid(sectionName) THEN Thrown("SyntaxError")
      ELSE IF ~match.found THEN Thrown("SectionNotFound")
           ELSE LET insertIndex == match.index + match.length
                IN  Returned(Slice(content, 0, insertIndex)
                               \o DivBlock(EscapeContent(newContent))
                               \o SliceFrom(content, insertIndex))

appendToSection(content, sectionName, newContent) ==
  LET match == FindHeader(content, sectionName)
  IN  IF ~match.ok THEN Thrown("SyntaxError")
      ELSE IF ~match.found THEN Thrown("SectionNotFound")
           ELSE LET insertIndex == match.index + match.length
                    afterHeader == SliceFrom(content, insertIndex)
                    nextSectionMatch == Match(afterHeader, NextH1Regex)
                    endNoteMatch == Match(afterHeader, EndNoteRegex)
                    insertPosition ==
                      IF nextSectionMatch.found THEN insertIndex + nextSectionMatch.index
                      ELSE IF endNoteMatch.found THEN insertIndex + endNoteMatch.index
                      ELSE Len(content)
                    before == Slice(content, 0, insertPosition)
                    after  == SliceFrom(content, insertPosition)
                IN  Returned(before \o DivBlock(EscapeContent(newContent)) \o after)

\* Mutation: the first closing tag is taken (indexOf), not the last.
appendToEnd_FirstTag(content, newContent) ==
  LET endTagIndex == IndexOf(content, EndNote)
  IN  IF endTagIndex = -1 THEN Thrown("MissingEndTag")
      ELSE Returned(Slice(content, 0, endTagIndex)
                      \o DivBlock(EscapeContent(newContent))
                      \o SliceFrom(content, endTagIndex))

\* Mutation: the result is closed with a fresh closing tag; what followed
\* the last closing tag is lost.
appendToEnd_DropsTail(content, newContent) ==
  LET endTagIndex == LastIndexOf(content, EndNote)
  IN  IF endTagIndex = -1 THEN Thrown("MissingEndTag")
      ELSE Returned(Slice(content, 0, endTagIndex)
                      \o DivBlock(EscapeContent(newContent))
                      \o EndNote)

appendToEnd(content, newContent) ==
  LET endTagIndex == LastIndexOf(content, EndNote)
  IN  IF endTagIndex = -1 THEN Thrown("MissingEndTag")
      ELSE LET before == Slice(content, 0, endTagIndex)
               after  == SliceFrom(content, endTagIndex)
           IN  Returned(before \o DivBlock(EscapeContent(newContent)) \o after)

\* ------------------------------------------- evernote-client.ts, read-note.ts

RECURSIVE StripTags(_)
\* content.replace(/<[^>]*>/g, ' ')
StripTags(s) ==
  IF s = << >> THEN << >>
  ELSE LET m == Match(s, TagRegex)
       IN  IF ~m.found THEN s
           ELSE Slice(s, 0, m.index) \o << " " >> \o StripTags(SliceFrom(s, m.index + m.length))

RECURSIVE CollapseWs(_)
\* .replace(/\s+/g, ' ')
CollapseWs(s) ==
  IF s = << >> THEN << >>
  ELSE IF ClassMatch("WS", Head(s))
       THEN << " " >> \o CollapseWs(SliceFrom(s, Run("WS", s, 1)))
       ELSE << Head(s) >> \o CollapseWs(Tail(s))

RECURSIVE TrimEnd(_)
TrimEnd(s) ==
  IF s # << >> /\ ClassMatch("WS", s[Len(s)]) THEN TrimEnd(SubSeq(s, 1, Len(s) - 1)) ELSE s

\* .trim()
Trim(s) == TrimEnd(SliceFrom(s, Run("WS", s, 1)))

stripEnml(content) == Trim(CollapseWs(StripTags(content)))

\* null is [found |-> FALSE]; a SyntaxError of the RegExp constructor is
\* [ok |-> FALSE].
extractSection(content, sectionName) ==
  LET headerMatch == FindHeader(content, sectionName)
  IN  IF ~headerMatch.ok THEN [ok |-> FALSE, found |-> FALSE, text |-> << >>]
      ELSE IF ~headerMatch.found THEN [ok |-> TRUE, found |-> FALSE, text |-> << >>]
           ELSE LET startIndex == headerMatch.index + headerMatch.length
                    nextHeaderMatch == Match(SliceFrom(content, startIndex), NextH1Regex)
                    \* nextHeaderMatch?.index is falsy for no match and for index 0
                    endIndex == IF nextHeaderMatch.found /\ nextHeaderMatch.index # 0
                                THEN startIndex + nextHeaderMatch.index
                                ELSE IndexOf(content, EndNote)
                IN  [ok |-> TRUE, found |-> TRUE,
                     text |-> stripEnml(Slice(content, startIndex, endIndex))]

\* /<h1[^>]*>([^<]+)<\/h1>/gi
AllHeadersRegex ==
  NextH1Regex \o << [c |-> "NOTLT", q |-> "+"] >> \o Lit(H1Close)

\* match[1] of a match m of AllHeadersRegex: the text between the '>' that
\* ends the opening tag and the closing tag.
Group1(content, m) ==
  LET open == Match(SliceFrom(content, m.index), NextH1Regex)
  IN  Slice(content, m.index + open.length, m.index + m.length - Len(H1Close))

\* sections[sectionName] = sectionContent
SetSection(sections, name, text) ==
  [x \in DOMAIN sections \cup {name} |-> IF x = name THEN text ELSE sections[x]]

\* if (sectionContent): neither null nor the empty string.
KeepSection(r) == r.found /\ r.text # << >>

\* The while loop of extractAllSections from offset lastIndex on; a
\* SyntaxError thrown by extractSection ends it with [ok |-> FALSE].
RECURSIVE ExecAll(_, _, _)
ExecAll(content, lastIndex, sections) ==
  LET m == SearchFrom(AllHeadersRegex, content, lastIndex + 1)
  IN  IF ~m.found THEN [ok |-> TRUE, sections |-> sections]
      ELSE LET sectionName == Trim(Group1(content, m))
               r == extractSection(content, sectionName)
           IN  IF ~r.ok THEN [ok |-> FALSE, sections |-> sections]
               ELSE ExecAll(content, m.index + m.length,
                            IF KeepSection(r)
                            THEN SetSection(sections, sectionName, r.text)
                            ELSE sections)

\* const sections = {}
NoSections == [x \in {} |-> << >>]

extractAllSections(content) == ExecAll(content, 0, NoSections)

\* ------------------------------------------------------- tags (note store)

\* A tag of the note store.
Tag(name, guid) == [name |-> name, guid |-> guid]

\* s.toLowerCase()
ToLowerCase(s) == [i \in 1..Len(s) |-> Lower(s[i])]

\* findTagsByNames: the tags of the store's list whose name, compared in
\* lower case, is one of the given names.
findTagsByNames(tags, tagNames) ==
  LET lowerNames == [i \in 1..Len(tagNames) |-> ToLowerCase(tagNames[i])]
      Named(t) == /\ t.name # << >>
                  /\ \E i \in 1..Len(lowerNames) : lowerNames[i] = ToLowerCase(t.name)
  IN  SelectSeq(tags, Named)

\* tagsToAdd.find(t => t.name?.toLowerCase() === tagName.toLowerCase()):
\* the positions of the tags of that name, the first being the one found.
FindTag(tags, tagName) ==
  { i \in 1..Len(tags) : ToLowerCase(tags[i].name) = ToLowerCase(tagName) }

\* guids.includes(guid)
Includes(guids, guid) == \E i \in 1..Len(guids) : guids[i] = guid

\* if (tag.guid && !existingTagGuids.includes(tag.guid)) push(tag.guid)
PushGuid(guids, guid) == IF Includes(guids, guid) THEN guids ELSE Append(guids, guid)

\* (note.tagGuids ?? []).filter(g => !removeGuids.includes(g))
RemoveGuids(guids, tagsToRemove) ==
  LET removeGuids == [i \in 1..Len(tagsToRemove) |-> tagsToRemove[i].guid]
      Kept(g) == ~Includes(removeGuids, g)
  IN  SelectSeq(guids, Kept)

\* ------------------------------------------------- parseArgs (command line)

Dashes == << "-", "-" >>
Equals == << "=" >>

\* arg.startsWith('--')
StartsWithDashes(arg) == OccursAt(arg, Dashes, 0)

\* key.includes('=')
IncludesEquals(key) == IndexOf(key, Equals) # -1

\* key.split('='): the parts between the occurrences of '='.
RECURSIVE SplitEquals(_)
SplitEquals(s) ==
  LET i == IndexOf(s, Equals)
  IN  IF i = -1 THEN << s >>
      ELSE << Slice(s, 0, i) >> \o SplitEquals(SliceFrom(s, i + 1))

\* The values of the result record: a string, or the boolean true.
StringValue(v) == [kind |-> "string", val |-> v]
TrueValue      == [kind |-> "true"]

\* const result = {}
EmptyRecord == [k \in {} |-> TrueValue]

\* result[k] = v
SetKey(result, k, v) ==
  [x \in DOMAIN result \cup {k} |-> IF x = k THEN v ELSE result[x]]

\* The loop of parseArgs from 1-based position i on.  const [k, v] =
\* key.split('=') takes the first two parts of the split.
RECURSIVE ParseFrom(_, _, _)
ParseFrom(as, i, result) ==
  IF i > Len(as) THEN result
  ELSE IF ~StartsWithDashes(as[i]) THEN ParseFrom(as, i + 1, result)
  ELSE LET key == SliceFrom(as[i], 2)
       IN  IF IncludesEquals(key)
           THEN LET parts == SplitEquals(key)
                IN  ParseFrom(as, i + 1, SetKey(result, parts[1], StringValue(parts[2])))
           ELSE IF i + 1 <= Len(as) /\ ~StartsWithDashes(as[i + 1])
                THEN ParseFrom(as, i + 2, SetKey(result, key, StringValue(as[i + 1])))
                ELSE ParseFrom(as, i + 1, SetKey(result, key, TrueValue))

parseArgs(as) == ParseFrom(as, 1, EmptyRecord)

\* --------------------------------------- enml-formatter.ts (enml-guide.md)

QuotEntity == << "&", "q", "u", "o", "t", ";" >>
EnNoteOpen == << "<", "e", "n", "-", "n", "o", "t", "e", ">" >>
Newline    == << "\n" >>

\* const ENML_HEADER: the XML declaration and the DOCTYPE, on two lines.
ENML_HEADER ==
  << "<", "?", "x", "m", "l", " ", "v", "e", "r", "s", "i", "o", "n", "=",
     "\"", "1", ".", "0", "\"", " ", "e", "n", "c", "o", "d", "i", "n",
     "g", "=", "\"", "U", "T", "F", "-", "8", "\"", "?", ">", "\n", "<",
     "!", "D", "O", "C", "T", "Y", "P", "E", " ", "e", "n", "-", "n", "o",
     "t", "e", " ", "S", "Y", "S", "T", "E", "M", " ", "\"", "h", "t", "t",
     "p", ":", "/", "/", "x", "m", "l", ".", "e", "v", "e", "r", "n", "o",
     "t", "e", ".", "c", "o", "m", "/", "p", "u", "b", "/", "e", "n", "m",
     "l", "2", ".", "d", "t", "d", "\"", ">" >>

\* The value undefined, kept apart from every string, and the text a
\* template literal writes for a value.
Undefined == << "undefined" >>
TemplateText(v) ==
  IF v = Undefined THEN << "u", "n", "d", "e", "f", "i", "n", "e", "d" >> ELSE v

\* `${ENML_HEADER}\n<en-note>\n${bodyHtml}\n</en-note>`
wrapEnml(bodyHtml) ==
  ENML_HEADER \o Newline \o EnNoteOpen \o Newline
    \o TemplateText(bodyHtml) \o Newline \o EndNote

\* escapeForEnml without the replacement of '&'.
escapeForEnml_NoAmp(text) ==
  ReplaceAll(ReplaceAll(ReplaceAll(ReplaceAll(text,
     "<", LtEntity), ">", GtEntity), "\"", QuotEntity), "\n", Br)

\* escapeForEnml with newlines replaced by an unclosed <br>.
escapeForEnml_OpenBr(text) ==
  ReplaceAll(ReplaceAll(ReplaceAll(ReplaceAll(ReplaceAll(text,
     "&", AmpEntity), "<", LtEntity), ">", GtEntity), "\"", QuotEntity),
     "\n", << "<", "b", "r", ">" >>)

\* text.replace(/&/g, '&amp;').replace(/</g, '&lt;').replace(/>/g, '&gt;')
\*     .replace(/"/g, '&quot;').replace(/\n/g, '<br/>')
escapeForEnml(text) ==
  ReplaceAll(ReplaceAll(ReplaceAll(ReplaceAll(ReplaceAll(text,
     "&", AmpEntity), "<", LtEntity), ">", GtEntity), "\"", QuotEntity),
     "\n", Br)

\* ------------------------------------------- markdownToBody (marked, gfm)

\* marked reads the markdown text into block tokens and each paragraph into
\* inline tokens; the renderer then writes each token.  Tokens: an inline
\* token is text, br, image or html; a block token is paragraph, hr, html
\* or table.  A table cell token carries text, header and align.
NoAlign == "none"
TextTok(t)         == [type |-> "text", text |-> t]
BrTok              == [type |-> "br"]
ImageTok(h, t, ti) == [type |-> "image", href |-> h, text |-> t, title |-> ti]
HtmlTok(t)         == [type |-> "html", text |-> t]
ParagraphTok(ts)   == [type |-> "paragraph", tokens |-> ts]
HrTok              == [type |-> "hr"]
CellTok(t, h, a)   == [text |-> t, header |-> h, align |-> a]
TableTok(hd, rs)   == [type |-> "table", header |-> hd, rows |-> rs]

\* marked's escape of text: '&', '<', '>' and '"' become entities.
EscapeHtml(text) ==
  ReplaceAll(ReplaceAll(ReplaceAll(ReplaceAll(text,
     "&", AmpEntity), "<", LtEntity), ">", GtEntity), "\"", QuotEntity)

\* renderer.br and renderer.hr
RenderBr == << "<", "b", "r", "/", ">" >>
RenderHr == << "<", "h", "r", "/", ">" >>

\* renderer.image with the closing slash left out.
RenderImage_Unclosed(token) ==
     << "<", "i", "m", "g", " ", "s", "r", "c", "=", "\"" >> \o token.href
    \o << "\"", " ", "a", "l", "t", "=", "\"" >> \o token.text \o << "\"" >>
    \o (IF token.title # << >>
        THEN << " ", "t", "i", "t", "l", "e", "=", "\"" >> \o token.title \o << "\"" >>
        ELSE << >>)
    \o << ">" >>

\* renderer.image: `<img src="${token.href}" alt="${token.text}"${titleAttr}/>`
\* with titleAttr = token.title ? ` title="${token.title}"` : ''.
RenderImage(token) ==
     << "<", "i", "m", "g", " ", "s", "r", "c", "=", "\"" >> \o token.href
    \o << "\"", " ", "a", "l", "t", "=", "\"" >> \o token.text \o << "\"" >>
    \o (IF token.title # << >>
        THEN << " ", "t", "i", "t", "l", "e", "=", "\"" >> \o token.title \o << "\"" >>
        ELSE << >>)
    \o << "/", ">" >>

BaseStyle   ==
  << "b", "o", "r", "d", "e", "r", ":", " ", "1", "p", "x", " ", "s", "o",
     "l", "i", "d", " ", "#", "c", "c", "c", ";", " ", "p", "a", "d", "d",
     "i", "n", "g", ":", " ", "8", "p", "x", " ", "1", "2", "p", "x", ";" >>
HeaderExtra ==
  << " ", "b", "a", "c", "k", "g", "r", "o", "u", "n", "d", "-", "c", "o",
     "l", "o", "r", ":", " ", "#", "f", "5", "f", "5", "f", "5", ";", " ",
     "f", "o", "n", "t", "-", "w", "e", "i", "g", "h", "t", ":", " ", "b",
     "o", "l", "d", ";" >>
TextAlign   ==
  << " ", "t", "e", "x", "t", "-", "a", "l", "i", "g", "n", ":", " " >>
AlignText(a) ==
  CASE a = "left"   -> << "l", "e", "f", "t" >>
    [] a = "center" -> << "c", "e", "n", "t", "e", "r" >>
    [] a = "right"  -> << "r", "i", "g", "h", "t" >>

\* renderer.tablecell with the alignment of header cells fixed to left.
RenderTableCell_HeaderLeft(token) ==
  LET tag         == IF token.header THEN << "t", "h" >> ELSE << "t", "d" >>
      headerExtra == IF token.header THEN HeaderExtra ELSE << >>
      alignExtra  == IF token.header
                     THEN TextAlign \o AlignText("left") \o << ";" >>
                     ELSE IF token.align # NoAlign
                          THEN TextAlign \o AlignText(token.align) \o << ";" >>
                          ELSE << >>
  IN  << "<" >> \o tag \o << " ", "s", "t", "y", "l", "e", "=", "\"" >>
        \o BaseStyle \o headerExtra \o alignExtra \o << "\"", ">" >>
        \o token.text \o << "<", "/" >> \o tag \o << ">" >>

\* renderer.tablecell:
\* `<${tag} style="${baseStyle}${headerExtra}${alignExtra}">${token.text}</${tag}>`
RenderTableCell(token) ==
  LET tag         == IF token.header THEN << "t", "h" >> ELSE << "t", "d" >>
      headerExtra == IF token.header THEN HeaderExtra ELSE << >>
      alignExtra  == IF token.align # NoAlign
                     THEN TextAlign \o AlignText(token.align) \o << ";" >>
                     ELSE IF token.header
                          THEN TextAlign \o AlignText("left") \o << ";" >>
                          ELSE << >>
  IN  << "<" >> \o tag \o << " ", "s", "t", "y", "l", "e", "=", "\"" >>
        \o BaseStyle \o headerExtra \o alignExtra \o << "\"", ">" >>
        \o token.text \o << "<", "/" >> \o tag \o << ">" >>

\* The renderer on one inline token: text is escaped, raw html is written
\* as it stands.
RenderInline(token) ==
  CASE token.type = "text"  -> EscapeHtml(token.text)
    [] token.type = "br"    -> RenderBr
    [] token.type = "image" -> RenderImage(token)
    [] token.type = "html"  -> token.text

RECURSIVE RenderInlines(_)
RenderInlines(tokens) ==
  IF tokens = << >> THEN << >>
  ELSE RenderInline(Head(tokens)) \o RenderInlines(Tail(tokens))

RECURSIVE RenderCells(_)
RenderCells(cells) ==
  IF cells = << >> THEN << >>
  ELSE RenderTableCell(Head(cells)) \o RenderCells(Tail(cells))

\* marked's tablerow: `<tr>\n${text}</tr>\n`
RenderRow(cells) ==
  << "<", "t", "r", ">", "\n" >> \o RenderCells(cells)
    \o << "<", "/", "t", "r", ">", "\n" >>

RECURSIVE RenderRows(_)
RenderRows(rows) ==
  IF rows = << >> THEN << >>
  ELSE RenderRow(Head(rows)) \o RenderRows(Tail(rows))

\* marked's table: thead with the header row, tbody with the rows.
RenderTable(token) ==
    << "<", "t", "a", "b", "l", "e", ">", "\n", "<", "t", "h", "e", "a",
       "d", ">", "\n" >> \o RenderRow(token.header)
    \o << "<", "/", "t", "h", "e", "a", "d", ">", "\n" >>
    \o (IF token.rows # << >>
        THEN << "<", "t", "b", "o", "d", "y", ">" >> \o RenderRows(token.rows)
             \o << "<", "/", "t", "b", "o", "d", "y", ">" >>
        ELSE << >>)
    \o << "<", "/", "t", "a", "b", "l", "e", ">", "\n" >>

\* The renderer on one block token.
RenderBlock(token) ==
  CASE token.type = "paragraph" ->
         << "<", "p", ">" >> \o RenderInlines(token.tokens)
           \o << "<", "/", "p", ">", "\n" >>
    [] token.type = "hr"    -> RenderHr
    [] token.type = "html"  -> token.text
    [] token.type = "table" -> RenderTable(token)

RECURSIVE RenderBlocks(_)
RenderBlocks(tokens) ==
  IF tokens = << >> THEN << >>
  ELSE RenderBlock(Head(tokens)) \o RenderBlocks(Tail(tokens))

\* The markdown blocks of the model, each with the text that spells it and
\* the token marked reads from it: a paragraph; a paragraph with a line
\* break (breaks: true); images without and with a title; a rule; raw
\* markup as a block and inside a paragraph; a paragraph of reserved
\* characters; a table whose columns declare no, left and right alignment.
MdText    == [src |-> << "x" >>, tok |-> ParagraphTok(<< TextTok(<< "x" >>) >>)]
MdBreak   == [src |-> << "x", "\n", "x" >>,
              tok |-> ParagraphTok(<< TextTok(<< "x" >>), BrTok, TextTok(<< "x" >>) >>)]
MdImage   == [src |-> << "!", "[", "x", "]", "(", "x", ")" >>,
              tok |-> ParagraphTok(<< ImageTok(<< "x" >>, << "x" >>, << >>) >>)]
MdImageT  == [src |-> << "!", "[", "x", "]", "(", "x", " ", "\"", "x", "\"", ")" >>,
              tok |-> ParagraphTok(<< ImageTok(<< "x" >>, << "x" >>, << "x" >>) >>)]
MdRule    == [src |-> << "-", "-", "-" >>, tok |-> HrTok]
MdScript  == [src |-> << "<", "s", "c", "r", "i", "p", "t", ">", "x", "<", "/", "s", "c", "r",
   "i", "p", "t", ">" >>,
              tok |-> HtmlTok(<< "<", "s", "c", "r", "i", "p", "t", ">", "x", "<", "/", "s", "c", "r",
   "i", "p", "t", ">" >>)]
MdRawBr   == [src |-> << "x", "<", "b", "r", ">", "x" >>,
              tok |-> ParagraphTok(<< TextTok(<< "x" >>), HtmlTok(<< "<", "b", "r", ">" >>),
                                      TextTok(<< "x" >>) >>)]
MdEndNote == [src |-> EndNote, tok |-> HtmlTok(EndNote)]
MdAmpQuot == [src |-> << "&", "\"" >>, tok |-> ParagraphTok(<< TextTok(<< "&", "\"" >>) >>)]
MdTable   == [src |-> << "|", "x", "|", "x", "|", "x", "|", "\n", "|", "-", "|", ":", "-", "|",
   "-", ":", "|", "\n", "|", "x", "|", "x", "|", "x", "|" >>,
              tok |-> TableTok(<< CellTok(<< "x" >>, TRUE, NoAlign),
                                  CellTok(<< "x" >>, TRUE, "left"),
                                  CellTok(<< "x" >>, TRUE, "right") >>,
                               << << CellTok(<< "x" >>, FALSE, NoAlign),
                                     CellTok(<< "x" >>, FALSE, "left"),
                                     CellTok(<< "x" >>, FALSE, "right") >> >>)]
MdBlocks  == { MdText, MdBreak, MdImage, MdImageT, MdRule, MdScript, MdRawBr,
               MdEndNote, MdAmpQuot, MdTable }

\* Blocks are set apart by a blank line.
BlankLine == << "\n", "\n" >>

RECURSIVE SplitBlocks(_)
SplitBlocks(text) ==
  IF text = << >> THEN << >>
  ELSE LET i == IndexOf(text, BlankLine)
       IN  IF i = -1 THEN << text >>
           ELSE << Slice(text, 0, i) >> \o SplitBlocks(SliceFrom(text, i + Len(BlankLine)))

\* The token of one block; a block of raw markup takes the blank line after
\* it into its text.
LexBlock(src, last) ==
  LET b == CHOOSE b \in MdBlocks : b.src = src
  IN  IF b.tok.type = "html" /\ ~last THEN HtmlTok(b.tok.text \o BlankLine) ELSE b.tok

Lex(md) ==
  LET srcs == SplitBlocks(md)
  IN  [k \in 1..Len(srcs) |-> LexBlock(srcs[k], k = Len(srcs))]

\* enmlMarked.parse(md)
markdownToBody(md) == RenderBlocks(Lex(md))

\* ----------------------------------------------------- the format dispatch

\* toEnmlBody with an unrecognized format treated as plain.
toEnmlBody_DefaultPlain(content, format) ==
  CASE format = "markdown" -> markdownToBody(content)
    [] format = "enml"     -> content
    [] OTHER               -> escapeForEnml(content)

\* toEnmlBody: the switch has no default case, so an unrecognized format
\* falls out of it and the function returns undefined.
toEnmlBody(content, format) ==
  CASE format = "markdown" -> markdownToBody(content)
    [] format = "plain"    -> escapeForEnml(content)
    [] format = "enml"     -> content
    [] OTHER               -> Undefined

\* toEnmlDocument that wraps enml content like the other formats.
toEnmlDocument_WrapsEnml(content, format) ==
  wrapEnml(toEnmlBody(content, format))

toEnmlDocument(content, format) ==
  IF format = "enml" THEN content
  ELSE wrapEnml(toEnmlBody(content, format))

\* ------------------------------------------------------------ create-note.ts

generateSprintTemplate ==
  wrapEnml(<< "<", "h", "1", ">", "T", "a", "s", "k", "s", "<", "/", "h",
              "1", ">", "\n", "<", "d", "i", "v", ">", "<", "b", "r", "/",
              ">", "<", "/", "d", "i", "v", ">", "\n", "\n", "<", "h", "1",
              ">", "L", "i", "n", "k", "s", "<", "/", "h", "1", ">", "\n",
              "<", "d", "i", "v", ">", "<", "b", "r", "/", ">", "<", "/",
              "d", "i", "v", ">", "\n", "\n", "<", "h", "1", ">", "N", "o",
              "t", "e", "s", "<", "/", "h", "1", ">", "\n", "<", "d", "i",
              "v", ">", "<", "b", "r", "/", ">", "<", "/", "d", "i", "v",
              ">" >>)

\* ------------------------------------------------------------- input sets

\* Building blocks of a note body: headings (lower case; upper case with an
\* attribute and white space around the text; a second name), section
\* content (a sub-heading whose text is a section name, and a block under
\* it), and the closing wrapper.
PieceHa   == << "<", "h", "1", ">", "a", "<", "/", "h", "1", ">" >>
PieceHA   == << "<", "H", "1", " ", "x", ">", " ", "A", " ", "<", "/", "H", "1", ">" >>
PieceHb   == << "<", "h", "1", ">", "b", "<", "/", "h", "1", ">" >>
PieceBody == << "<", "h", "2", ">", "a", "<", "/", "h", "2", ">",
                "<", "d", "i", "v", ">", "c", "<", "/", "d", "i", "v", ">" >>
Pieces    == { PieceHa, PieceHA, PieceHb, PieceBody, EndNote }

RECURSIVE Flatten(_)
Flatten(ps) == IF ps = << >> THEN << >> ELSE Head(ps) \o Flatten(Tail(ps))

\* The note bodies the store may hold when a script starts.
Docs == { Flatten(ps) : ps \in UNION { [1..n -> Pieces] : n \in 0..MaxPieces } }

\* Values of --section: plain names and names with pattern characters.
Names == { << "a" >>, << "b" >>, << "." >>, << "a", "+" >>, << "(" >> }

\* Values of --prepend / --append: plain text, and text with an ampersand,
\* a double quote, a newline and the markup of a heading.
Frags == { << "x" >>,
           << "&", "\"", "\n", "<", "h", "1", ">", "a", "<", "/", "h", "1", ">" >> }

\* An option that was not given; the empty string is falsy like undefined.
Absent == << >>

\* A tag list that was not given; like the empty list it skips its branch.
NoList == << >>

\* The options of an update-note invocation that edits content (addTags
\* and removeTags not given, so the tag branches of updateNote are skipped).
UpdateOptions == [ section    : Names \cup {Absent},
                   prepend    : Frags \cup {Absent},
                   append     : Frags \cup {Absent},
                   addTags    : {NoList},
                   removeTags : {NoList} ]

\* Tag names: one name in both letter cases, and a second name.
TagNames == { << "a" >>, << "A" >>, << "b" >> }

\* Values of --add-tags after split(',') and trim: lists of up to MaxTags
\* names, with repeated names and names that differ in letter case.
TagLists == UNION { [1..n -> TagNames] : n \in 0..MaxTags }

\* Values of --remove-tags: not given, the name of a tag in the other
\* letter case, and two names.
RemoveLists == { NoList, << << "a" >> >>, << << "b" >>, << "A" >> >> }

\* The options of an update-note invocation that edits content and tags.
TagUpdateOptions == [ section    : { Absent, << "a" >> },
                      prepend    : { Absent, << "x" >> },
                      append     : { Absent, << "x" >> },
                      addTags    : TagLists,
                      removeTags : RemoveLists ]

\* The note bodies of the invocations that edit tags: a note with a
\* section, and a note without a closing tag.
TagDocs == { PieceHa \o EndNote, << >> }

\* The tags of the store and of the note when such an invocation starts:
\* none; a tag A the note does not have; a tag A the note has.
TagStores == { [tags |-> << >>, guids |-> << >>],
               [tags |-> << Tag(<< "A" >>, 1) >>, guids |-> << >>],
               [tags |-> << Tag(<< "A" >>, 1) >>, guids |-> << 1 >>] }

RECURSIVE JoinBlocks(_)
JoinBlocks(srcs) ==
  IF srcs = << >> THEN << >>
  ELSE IF Len(srcs) = 1 THEN Head(srcs)
  ELSE Head(srcs) \o BlankLine \o JoinBlocks(Tail(srcs))

\* Values of --content: texts of up to MaxBlocks blocks; the empty text is
\* falsy like an option that was not given.
Contents ==
  { JoinBlocks(srcs) :
      srcs \in UNION { [1..n -> { b.src : b \in MdBlocks }] : n \in 0..MaxBlocks } }

\* Values of --format: not given (args.format || undefined), the three
\* formats, and a value that is none of them.
NoFormat == ""
Formats  == { NoFormat, "markdown", "plain", "enml", "html" }

\* Values of --template.
NoTemplate == ""
Templates  == { NoTemplate, "sprint", "blank" }

\* The options of a create-note invocation (a title given; tags and
\* notebook not given, so those branches of createNote are skipped).
CreateOptions == [ content : Contents, format : Formats, template : Templates ]

\* Command-line arguments: flags, --key=value (also with '=' in the value
\* and with an empty value) and bare words.
ArgTokens == { << "-", "-", "k" >>,
               << "-", "-", "j" >>,
               << "-", "-", "k", "=", "v" >>,
               << "-", "-", "j", "=", "v", "=", "w" >>,
               << "-", "-", "k", "=" >>,
               << "v" >>,
               << "w" >> }

\* The command lines given to a script.
Argvs == UNION { [1..n -> ArgTokens] : n \in 0..MaxArgs }

\* The documents the editing functions are called on in sequence: adjacent
\* empty sections; sections with content and a sub-heading; no closing
\* tag; a closing tag before a heading; a name on two headings; two
\* closing tags.
EditDocs == { Flatten(ps) : ps \in
                { << PieceHa, PieceHb, EndNote >>,
                  << PieceHa, PieceBody, PieceHb, PieceBody, EndNote >>,
                  << PieceHb, PieceHA >>,
                  << PieceHa, EndNote, PieceHb >>,
                  << PieceHA, PieceHb, PieceHa, EndNote >>,
                  << PieceHb, PieceBody, EndNote, EndNote >> } }

\* The section names of those calls.
EditNames == { << "a" >>, << "b" >> }

\* The texts of those calls: plain text, and a text with a double quote,
\* an ampersand, a newline, a heading and the closing tag.
EditFrags == { << "x" >>,
               << "\"", "&", "\n" >> \o PieceHa \o EndNote }

\* ------------------------------------------------------------------ state

VARIABLES
  storeContent,  \* the content of the note held by the note store
  pc,            \* the position of the running script
  opts,          \* update-note: the UpdateOptions of the invocation
  content,       \* update-note: the local variable content (= note.content)
  modified,      \* update-note: the local variable modified
  calls,         \* update-note: the editing calls made, in order
  updateCalls,   \* update-note: number of noteStore.updateNote calls made
  readArg,       \* read-note: the --section of the invocation
  outcome,       \* what the script reported when it ended
  createOpts,    \* create-note: the CreateOptions of the invocation
  noteContent,   \* create-note: note.content of the note being built
  created,       \* create-note: the contents passed to noteStore.createNote
  argv,          \* the command line given to parseArgs (process.argv.slice(2))
  args,          \* the record parseArgs returned
  storeTags,     \* the tags held by the note store, in creation order
  storeTagGuids, \* the tagGuids of the note held by the note store
  tagGuids,      \* update-note: note.tagGuids of the fetched note
  tagsToAdd,     \* update-note: the tags findTagsByNames returned for --add-tags
  tagIdx,        \* update-note: position of the loop over options.addTags
  createdTags,   \* update-note: the tags noteStore.createTag returned, in order
  initial,       \* section editor: the document before the first call
  document,      \* section editor: the document after the calls made so far
  history        \* section editor: the calls made so far, in order

createVars == << createOpts, noteContent, created >>

cliVars == << argv, args >>

tagVars == << storeTags, storeTagGuids, tagGuids, tagsToAdd, tagIdx, createdTags >>

editVars == << initial, document, history >>

vars == << storeContent, pc, opts, content, modified, calls,
           updateCalls, readArg, outcome, createOpts, noteContent, created,
           argv, args, storeTags, storeTagGuids, tagGuids, tagsToAdd, tagIdx,
           createdTags, initial, document, history >>

NoOptions == [section |-> Absent, prepend |-> Absent, append |-> Absent,
              addTags |-> NoList, removeTags |-> NoList]

NoCreateOptions == [content |-> Absent, format |-> NoFormat, template |-> NoTemplate]

Idle ==
  /\ pc = "idle" /\ opts = NoOptions /\ content = << >>
  /\ modified = FALSE /\ calls = << >> /\ updateCalls = 0
  /\ readArg = Absent /\ outcome = [kind |-> "none"]
  /\ createOpts = NoCreateOptions /\ noteContent = Undefined /\ created = << >>

\* parseArgs has not been called.
NotParsed == [kind |-> "none"]

NoArgs == argv = << >> /\ args = NotParsed

\* A store without tags and a note without tags.
NoTags ==
  /\ storeTags = << >> /\ storeTagGuids = << >>
  /\ tagGuids = << >> /\ tagsToAdd = << >> /\ tagIdx = 0 /\ createdTags = << >>

NoEdits == initial = << >> /\ document = << >> /\ history = << >>

Init ==
  /\ storeContent \in Docs
  /\ Idle
  /\ NoArgs /\ NoTags /\ NoEdits

\* ------------------------------------------------------ update-note.ts flow

\* main: the options are taken from the command line.
StartUpdate ==
  /\ pc = "idle"
  /\ \E o \in UpdateOptions :
       /\ pc' = "getNote"
       /\ opts' = o
  /\ UNCHANGED << storeContent, content, modified, calls, updateCalls, readArg, outcome >>
  /\ UNCHANGED << createVars, cliVars, tagVars, editVars >>

\* const note = await noteStore.getNote(...); let content = note.content ?? ''
GetNote ==
  /\ pc = "getNote"
  /\ content' = storeContent
  /\ tagGuids' = storeTagGuids
  /\ modified' = FALSE
  /\ pc' = "prepend"
  /\ UNCHANGED << storeContent, opts, calls, updateCalls, readArg, outcome >>
  /\ UNCHANGED << storeTags, storeTagGuids, tagsToAdd, tagIdx, createdTags >>
  /\ UNCHANGED << createVars, cliVars, editVars >>

\* noteStore.getNote rejects (unknown guid, expired token, network).
GetNoteFails ==
  /\ pc = "getNote"
  /\ pc' = "done"
  /\ outcome' = [kind |-> "error", err |-> "StoreError", call |-> "getNote"]
  /\ UNCHANGED << storeContent, opts, content, modified, calls, updateCalls, readArg >>
  /\ UNCHANGED << createVars, cliVars, tagVars, editVars >>

\* Where updateNote continues after the add-tags branch, and after the
\* append branch: a branch whose list is absent or empty is skipped.
AfterAddTags == IF opts.removeTags # NoList THEN "removeTags" ELSE "update"
AfterAppend  == IF opts.addTags # NoList THEN "addTags" ELSE AfterAddTags

Call(op, doc, name, frag, res) ==
  [op |-> op, doc |-> doc, name |-> name, frag |-> frag, res |-> res]

\* The edit of one branch: on a thrown error control passes to the catch
\* block, which reports the error and exits (process.exit(1)).
Apply(op, res, next) ==
  /\ calls' = Append(calls, Call(op, content, opts.section,
                                 IF op = "prependToSection" THEN opts.prepend ELSE opts.append,
                                 res))
  /\ IF res.ok
     THEN /\ content' = res.val
          /\ modified' = TRUE
          /\ pc' = next
          /\ UNCHANGED outcome
     ELSE /\ pc' = "done"
          /\ outcome' = [kind |-> "error", err |-> res.err]
          /\ UNCHANGED << content, modified >>

\* The mutant of Prepend that skips a prepend without a section.
Prepend_SkipsWithoutSection ==
  /\ pc = "prepend"
  /\ IF opts.prepend = Absent \/ opts.section = Absent
     THEN /\ pc' = "append"
          /\ UNCHANGED << content, modified, calls, outcome >>
     ELSE Apply("prependToSection",
                prependToSection(content, opts.section, opts.prepend), "append")
  /\ UNCHANGED << storeContent, opts, updateCalls, readArg >>
  /\ UNCHANGED << createVars, cliVars, tagVars, editVars >>

\* if (options.prepend) { ... }
Prepend ==
  /\ pc = "prepend"
  /\ IF opts.prepend = Absent
     THEN /\ pc' = "append"
          /\ UNCHANGED << content, modified, calls, outcome >>
     ELSE IF opts.section # Absent
          THEN Apply("prependToSection",
                     prependToSection(content, opts.section, opts.prepend), "append")
          ELSE /\ pc' = "done"
               /\ outcome' = [kind |-> "error", err |-> "PrependRequiresSection"]
               /\ UNCHANGED << content, modified, calls >>
  /\ UNCHANGED << storeContent, opts, updateCalls, readArg >>
  /\ UNCHANGED << createVars, cliVars, tagVars, editVars >>

\* if (options.append) { ... }
AppendStep ==
  /\ pc = "append"
  /\ IF opts.append = Absent
     THEN /\ pc' = AfterAppend
          /\ UNCHANGED << content, modified, calls, outcome >>
     ELSE IF opts.section # Absent
          THEN Apply("appendToSection",
                     appendToSection(content, opts.section, opts.append), AfterAppend)
          ELSE Apply("appendToEnd", appendToEnd(content, opts.append), AfterAppend)
  /\ UNCHANGED << storeContent, opts, updateCalls, readArg >>
  /\ UNCHANGED << createVars, cliVars, tagVars, editVars >>

\* const tagsToAdd = await findTagsByNames(options.addTags)
ListTagsToAdd ==
  /\ pc = "addTags"
  /\ tagsToAdd' = findTagsByNames(storeTags, opts.addTags)
  /\ tagIdx' = 1
  /\ pc' = "addLoop"
  /\ UNCHANGED << storeContent, opts, content, modified, calls, updateCalls, readArg, outcome >>
  /\ UNCHANGED << storeTags, storeTagGuids, tagGuids, createdTags >>
  /\ UNCHANGED << createVars, cliVars, editVars >>

\* noteStore.listTags rejects, in either tag branch.
ListTagsFails ==
  /\ pc \in {"addTags", "removeTags"}
  /\ pc' = "done"
  /\ outcome' = [kind |-> "error", err |-> "StoreError", call |-> "listTags"]
  /\ UNCHANGED << storeContent, opts, content, modified, calls, updateCalls, readArg >>
  /\ UNCHANGED << createVars, cliVars, tagVars, editVars >>

\* One turn of the loop for a name found in tagsToAdd: its guid is pushed
\* unless the note has it.
AddFoundTag ==
  /\ pc = "addLoop"
  /\ tagIdx <= Len(opts.addTags)
  /\ LET found == FindTag(tagsToAdd, opts.addTags[tagIdx])
     IN  /\ found # {}
         /\ tagGuids' = PushGuid(tagGuids, tagsToAdd[Min(found)].guid)
  /\ tagIdx' = tagIdx + 1
  /\ UNCHANGED << storeContent, pc, opts, content, modified, calls, updateCalls, readArg, outcome >>
  /\ UNCHANGED << storeTags, storeTagGuids, tagsToAdd, createdTags >>
  /\ UNCHANGED << createVars, cliVars, editVars >>

\* One turn of the loop for a name not found in tagsToAdd: the store
\* creates a tag of that name under a new guid, which is pushed.
CreateTag ==
  /\ pc = "addLoop"
  /\ tagIdx <= Len(opts.addTags)
  /\ FindTag(tagsToAdd, opts.addTags[tagIdx]) = {}
  /\ LET tag == Tag(opts.addTags[tagIdx], Len(storeTags) + 1)
     IN  /\ storeTags' = Append(storeTags, tag)
         /\ createdTags' = Append(createdTags, tag)
         /\ tagGuids' = PushGuid(tagGuids, tag.guid)
  /\ tagIdx' = tagIdx + 1
  /\ UNCHANGED << storeContent, pc, opts, content, modified, calls, updateCalls, readArg, outcome >>
  /\ UNCHANGED << storeTagGuids, tagsToAdd >>
  /\ UNCHANGED << createVars, cliVars, editVars >>

\* noteStore.createTag rejects.
CreateTagFails ==
  /\ pc = "addLoop"
  /\ tagIdx <= Len(opts.addTags)
  /\ FindTag(tagsToAdd, opts.addTags[tagIdx]) = {}
  /\ pc' = "done"
  /\ outcome' = [kind |-> "error", err |-> "StoreError", call |-> "createTag"]
  /\ UNCHANGED << storeContent, opts, content, modified, calls, updateCalls, readArg >>
  /\ UNCHANGED << createVars, cliVars, tagVars, editVars >>

\* After the loop: note.tagGuids = existingTagGuids; modified = true
AddTagsDone ==
  /\ pc = "addLoop"
  /\ tagIdx > Len(opts.addTags)
  /\ modified' = TRUE
  /\ pc' = AfterAddTags
  /\ UNCHANGED << storeContent, opts, content, calls, updateCalls, readArg, outcome >>
  /\ UNCHANGED << createVars, cliVars, tagVars, editVars >>

\* if (options.removeTags && options.removeTags.length > 0) { ... }
RemoveTags ==
  /\ pc = "removeTags"
  /\ tagGuids' = RemoveGuids(tagGuids, findTagsByNames(storeTags, opts.removeTags))
  /\ modified' = TRUE
  /\ pc' = "update"
  /\ UNCHANGED << storeContent, opts, content, calls, updateCalls, readArg, outcome >>
  /\ UNCHANGED << storeTags, storeTagGuids, tagsToAdd, tagIdx, createdTags >>
  /\ UNCHANGED << createVars, cliVars, editVars >>

\* The mutant of Update that writes the note whether or not it was modified.
Update_Always ==
  /\ pc = "update"
  /\ storeContent' = content
  /\ storeTagGuids' = tagGuids
  /\ updateCalls' = updateCalls + 1
  /\ outcome' = [kind |-> "updated"]
  /\ pc' = "done"
  /\ UNCHANGED << opts, content, modified, calls, readArg >>
  /\ UNCHANGED << storeTags, tagGuids, tagsToAdd, tagIdx, createdTags >>
  /\ UNCHANGED << createVars, cliVars, editVars >>

\* if (modified) { await noteStore.updateNote(note) } else 'No changes made.'
Update ==
  /\ pc = "update"
  /\ IF modified
     THEN /\ storeContent' = content
          /\ storeTagGuids' = tagGuids
          /\ updateCalls' = updateCalls + 1
          /\ outcome' = [kind |-> "updated"]
     ELSE /\ outcome' = [kind |-> "nochange"]
          /\ UNCHANGED << storeContent, storeTagGuids, updateCalls >>
  /\ pc' = "done"
  /\ UNCHANGED << opts, content, modified, calls, readArg >>
  /\ UNCHANGED << storeTags, tagGuids, tagsToAdd, tagIdx, createdTags >>
  /\ UNCHANGED << createVars, cliVars, editVars >>

\* noteStore.updateNote rejects: the store keeps the note it had.
UpdateFails ==
  /\ pc = "update"
  /\ modified
  /\ updateCalls' = updateCalls + 1
  /\ outcome' = [kind |-> "error", err |-> "StoreError", call |-> "updateNote"]
  /\ pc' = "done"
  /\ UNCHANGED << storeContent, opts, content, modified, calls, readArg >>
  /\ UNCHANGED << createVars, cliVars, tagVars, editVars >>

\* --------------------------------------------------------- read-note.ts flow

\* read-note --section name: getNote, then extractSection on its content.
ReadSection ==
  /\ pc = "idle"
  /\ \E n \in Names :
       /\ readArg' = n
       /\ LET r == extractSection(storeContent, n)
          IN  outcome' = IF ~r.ok THEN [kind |-> "error", err |-> "SyntaxError"]
                         ELSE IF r.found /\ r.text # << >>
                              THEN [kind |-> "section", text |-> r.text]
                              ELSE [kind |-> "sectionNotFound"]
  /\ pc' = "done"
  /\ UNCHANGED << storeContent, opts, content, modified, calls, updateCalls >>
  /\ UNCHANGED << createVars, cliVars, tagVars, editVars >>

Next ==
  \/ StartUpdate
  \/ GetNote
  \/ GetNoteFails
  \/ Prepend
  \/ AppendStep
  \/ Update
  \/ UpdateFails
  \/ ReadSection

Spec == Init /\ [][Next]_vars

\* ------------------------------------- update-note.ts flow with tag options

\* main: the options are taken from the command line.
StartTagUpdate ==
  /\ pc = "idle"
  /\ \E o \in TagUpdateOptions :
       /\ pc' = "getNote"
       /\ opts' = o
  /\ UNCHANGED << storeContent, content, modified, calls, updateCalls, readArg, outcome >>
  /\ UNCHANGED << createVars, cliVars, tagVars, editVars >>

TagInit ==
  /\ storeContent \in TagDocs
  /\ Idle
  /\ \E st \in TagStores : storeTags = st.tags /\ storeTagGuids = st.guids
  /\ tagGuids = << >> /\ tagsToAdd = << >> /\ tagIdx = 0 /\ createdTags = << >>
  /\ NoArgs /\ NoEdits

TagNext ==
  \/ StartTagUpdate
  \/ GetNote
  \/ GetNoteFails
  \/ Prepend
  \/ AppendStep
  \/ ListTagsToAdd
  \/ ListTagsFails
  \/ AddFoundTag
  \/ CreateTag
  \/ CreateTagFails
  \/ AddTagsDone
  \/ RemoveTags
  \/ Update
  \/ UpdateFails

TagSpec == TagInit /\ [][TagNext]_vars

\* --------------------------------------------------------- create-note.ts flow

updateVars == << opts, content, modified, calls, updateCalls, readArg >>

\* main: the options are taken from the command line.
StartCreate ==
  /\ pc = "idle"
  /\ \E o \in CreateOptions :
       /\ pc' = "build"
       /\ createOpts' = o
  /\ UNCHANGED << storeContent, updateVars, outcome, noteContent, created >>
  /\ UNCHANGED << cliVars, tagVars, editVars >>

\* createNote: format = options.format ?? 'markdown'; note.content is the
\* sprint template, the converted content, or the empty plain document.
BuildNote ==
  /\ pc = "build"
  /\ LET format == IF createOpts.format = NoFormat THEN "markdown" ELSE createOpts.format
     IN  noteContent' =
           IF createOpts.template = "sprint" THEN generateSprintTemplate
           ELSE IF createOpts.content # Absent
                THEN toEnmlDocument(createOpts.content, format)
                ELSE toEnmlDocument(<< >>, "plain")
  /\ pc' = "createNote"
  /\ UNCHANGED << storeContent, updateVars, outcome, createOpts, created >>
  /\ UNCHANGED << cliVars, tagVars, editVars >>

\* const created = await noteStore.createNote(note)
CreateNote ==
  /\ pc = "createNote"
  /\ created' = Append(created, noteContent)
  /\ outcome' = [kind |-> "created"]
  /\ pc' = "done"
  /\ UNCHANGED << storeContent, updateVars, createOpts, noteContent >>
  /\ UNCHANGED << cliVars, tagVars, editVars >>

\* noteStore.createNote rejects: the catch block reports the error.
CreateNoteFails ==
  /\ pc = "createNote"
  /\ outcome' = [kind |-> "error", err |-> "StoreError", call |-> "createNote"]
  /\ pc' = "done"
  /\ UNCHANGED << storeContent, updateVars, createOpts, noteContent, created >>
  /\ UNCHANGED << cliVars, tagVars, editVars >>

CreateInit ==
  /\ storeContent = << >>
  /\ Idle
  /\ NoArgs /\ NoTags /\ NoEdits

CreateNext ==
  \/ StartCreate
  \/ BuildNote
  \/ CreateNote
  \/ CreateNoteFails

CreateSpec == CreateInit /\ [][CreateNext]_vars

\* ----------------------------------------- read-note.ts flow, all sections

\* read-note without --section and --raw: getNote, then extractAllSections;
\* the sections are printed, or the stripped content when there are none.
ReadAll ==
  /\ pc = "idle"
  /\ LET r == extractAllSections(storeContent)
     IN  outcome' = IF ~r.ok THEN [kind |-> "error", err |-> "SyntaxError"]
                    ELSE IF DOMAIN r.sections # {}
                         THEN [kind |-> "sections", sections |-> r.sections]
                         ELSE [kind |-> "content", text |-> stripEnml(storeContent)]
  /\ pc' = "done"
  /\ UNCHANGED << storeContent, updateVars >>
  /\ UNCHANGED << createVars, cliVars, tagVars, editVars >>

\* The note is one of the bodies, or a note made from the sprint template.
ReadInit ==
  /\ storeContent \in Docs \cup { generateSprintTemplate }
  /\ Idle
  /\ NoArgs /\ NoTags /\ NoEdits

ReadNext ==
  \/ ReadSection
  \/ ReadAll

ReadSpec == ReadInit /\ [][ReadNext]_vars

\* --------------------------------------- the editing functions in sequence

\* One more call on the document the last call returned; a call that
\* throws returns no document and is not part of the sequence.
Edit(op, name, frag, res) ==
  /\ res.ok
  /\ history' = Append(history, Call(op, document, name, frag, res))
  /\ document' = res.val
  /\ UNCHANGED << storeContent, pc, updateVars, outcome, initial >>
  /\ UNCHANGED << createVars, cliVars, tagVars >>

PrependToSection ==
  /\ Len(history) < MaxEdits
  /\ \E name \in EditNames, frag \in EditFrags :
       Edit("prependToSection", name, frag, prependToSection(document, name, frag))

AppendToSection ==
  /\ Len(history) < MaxEdits
  /\ \E name \in EditNames, frag \in EditFrags :
       Edit("appendToSection", name, frag, appendToSection(document, name, frag))

AppendToEnd ==
  /\ Len(history) < MaxEdits
  /\ \E frag \in EditFrags :
       Edit("appendToEnd", Absent, frag, appendToEnd(document, frag))

EditInit ==
  /\ storeContent = << >>
  /\ Idle
  /\ initial \in EditDocs /\ document = initial /\ history = << >>
  /\ NoArgs /\ NoTags

EditNext ==
  \/ PrependToSection
  \/ AppendToSection
  \/ AppendToEnd

EditSpec == EditInit /\ [][EditNext]_vars

\* ---------------------------------------------------------------- parseArgs

\* const args = parseArgs(process.argv.slice(2))
ParseArgs ==
  /\ pc = "idle"
  /\ args' = parseArgs(argv)
  /\ pc' = "parsed"
  /\ UNCHANGED << storeContent, updateVars, outcome, createVars, argv, tagVars, editVars >>

ArgsInit ==
  /\ storeContent = << >>
  /\ Idle
  /\ argv \in Argvs /\ args = NotParsed
  /\ NoTags /\ NoEdits

ArgsNext == ParseArgs

ArgsSpec == ArgsInit /\ [][ArgsNext]_vars

\* ========================================================== the properties

\* ------------------------------------------------- vocabulary of the claims

\* An <h1 ...> opening tag starts at offset i: "<h1" in either case, then
\* characters other than '>', then '>'.
H1OpensAt(doc, i) ==
  /\ i + 3 <= Len(doc)
  /\ doc[i + 1] = "<" /\ doc[i + 2] \in {"h", "H"} /\ doc[i + 3] = "1"
  /\ \E e \in (i + 4)..Len(doc) : doc[e] = ">"

\* The offset just after that opening tag.
H1OpenEnd(doc, i) == Min({ e \in (i + 4)..Len(doc) : doc[e] = ">" })

\* A closing </h1> (either case) starts at offset j.
H1ClosesAt(doc, j) ==
  /\ j + 5 <= Len(doc)
  /\ doc[j + 1] = "<" /\ doc[j + 2] = "/" /\ doc[j + 3] \in {"h", "H"}
  /\ doc[j + 4] = "1" /\ doc[j + 5] = ">"

\* The h1 heading element that opens at offset i: the opening tag, the
\* inner text up to the first closing tag after it, and that closing tag.
HeadingAt(doc, i) ==
  LET ts == H1OpenEnd(doc, i)
      te == Min({ j \in ts..Len(doc) : H1ClosesAt(doc, j) })
  IN  [start |-> i, text |-> Slice(doc, ts, te), end |-> te + 5]

H1Headings(doc) ==
  { HeadingAt(doc, i) :
      i \in { i \in 0..Len(doc) :
                /\ H1OpensAt(doc, i)
                /\ \E j \in H1OpenEnd(doc, i)..Len(doc) : H1ClosesAt(doc, j) } }

\* The heading's inner text, white space around it ignored, is the name as
\* the lookup reads it (a pattern, letters in either case).
TextMatches(text, name) ==
  /\ RegexValid(name)
  /\ MatchFrom(Star("WS") \o NameItems(name, 1) \o Star("WS") \o Lit(H1Close),
               1, text \o H1Close, 1) = Len(text) + Len(H1Close) + 1

MatchingHeadings(doc, name) == { h \in H1Headings(doc) : TextMatches(h.text, name) }

\* The first heading of a non-empty set of headings, in document order.
FirstOf(hs) == CHOOSE h \in hs : \A g \in hs : h.start <= g.start

\* The end of the section whose heading ends at offset he: the next <h1 ...>
\* opening tag, else the next </en-note>, else the end of the string.
SectionEnd(doc, he) ==
  LET opens  == { i \in he..Len(doc) : H1OpensAt(doc, i) }
      closes == { i \in he..Len(doc) : OccursAt(doc, EndNote, i) }
  IN  IF opens # {} THEN Min(opens)
      ELSE IF closes # {} THEN Min(closes)
      ELSE Len(doc)

\* The escaped form of a text: each '&', '<', '>' as its entity and each
\* newline as a <br/> element.
EscapedChar(ch) ==
  CASE ch = "&"  -> AmpEntity
    [] ch = "<"  -> LtEntity
    [] ch = ">"  -> GtEntity
    [] ch = "\n" -> Br
    [] OTHER     -> << ch >>

RECURSIVE Escaped(_)
Escaped(f) == IF f = << >> THEN << >> ELSE EscapedChar(Head(f)) \o Escaped(Tail(f))

InsertedBlock(f) == DivOpen \o Escaped(f) \o DivClose

\* doc with block put in at offset p.
InsertAt(doc, p, block) == Slice(doc, 0, p) \o block \o SliceFrom(doc, p)

CallsOf(ops) == { k \in DOMAIN calls : calls[k].op \in ops }

\* ----------------------------------------------------------------- C1

\* C1: whenever appendToSection is called on a document that has an h1
\* heading matching the section name, it returns the document with the block
\* <div>escaped f</div> inserted at the end of the section of the first such
\* heading: before the next <h1 ...> opening tag, else before the next
\* </en-note>, else at the end of the string.
C1_AppendAtSectionEnd ==
  \A k \in CallsOf({"appendToSection"}) :
    LET c  == calls[k]
        hs == MatchingHeadings(c.doc, c.name)
    IN  hs # {} =>
          /\ c.res.ok
          /\ c.res.val = InsertAt(c.doc, SectionEnd(c.doc, FirstOf(hs).end),
                                  InsertedBlock(c.frag))

\* An append to a section that has content and is followed by another h1.
C1_Witness ==
  \E k \in CallsOf({"appendToSection"}) :
    LET c  == calls[k]
        hs == MatchingHeadings(c.doc, c.name)
    IN  /\ hs # {}
        /\ c.res.ok
        /\ SectionEnd(c.doc, FirstOf(hs).end) > FirstOf(hs).end
        /\ H1OpensAt(c.doc, SectionEnd(c.doc, FirstOf(hs).end))

\* ----------------------------------------------------------------- C2

\* C2: whenever prependToSection is called on a document that has an h1
\* heading matching the section name, it returns the document with the block
\* inserted directly after the closing </h1> of the first such heading.
C2_PrependAfterHeading ==
  \A k \in CallsOf({"prependToSection"}) :
    LET c  == calls[k]
        hs == MatchingHeadings(c.doc, c.name)
    IN  hs # {} =>
          /\ c.res.ok
          /\ H1ClosesAt(c.doc, FirstOf(hs).end - 5)
          /\ c.res.val = InsertAt(c.doc, FirstOf(hs).end, InsertedBlock(c.frag))

\* A prepend to a section that has content.
C2_Witness ==
  \E k \in CallsOf({"prependToSection"}) :
    LET c  == calls[k]
        hs == MatchingHeadings(c.doc, c.name)
    IN  /\ hs # {}
        /\ c.res.ok
        /\ SectionEnd(c.doc, FirstOf(hs).end) > FirstOf(hs).end

\* ----------------------------------------------------------------- C3

\* C3: every successful editing call is a pure insertion: for one offset p
\* the result is doc[0..p), one block that opens with <div> and closes with
\* </div>, then doc[p..); taking the block out gives doc back.
C3_PureInsertion ==
  \A k \in DOMAIN calls :
    LET c == calls[k]
        n == Len(c.res.val) - Len(c.doc)
    IN  c.res.ok =>
          /\ n >= Len(DivOpen) + Len(DivClose)
          /\ \E p \in 0..Len(c.doc) :
               /\ Slice(c.res.val, 0, p) = Slice(c.doc, 0, p)
               /\ SliceFrom(c.res.val, p + n) = SliceFrom(c.doc, p)
               /\ Slice(c.res.val, p, p + Len(DivOpen)) = DivOpen
               /\ Slice(c.res.val, p + n - Len(DivClose), p + n) = DivClose
               /\ Slice(c.res.val, 0, p) \o SliceFrom(c.res.val, p + n) = c.doc

\* All three functions have inserted into a non-empty document: a prepend
\* and an append in one invocation, or an append to the end.
C3_Witness ==
  /\ Len(calls) = 2
  /\ calls[1].res.ok /\ calls[2].res.ok
  /\ calls[1].doc # << >>

\* ----------------------------------------------------------------- C4

\* The heading's inner text, white space around it ignored, equals the
\* name, letters compared in either case.
TextEquals(text, name) ==
  LET t == Trim(text)
  IN  /\ Len(t) = Len(name)
      /\ \A k \in 1..Len(t) : Lower(t[k]) = Lower(name[k])

EqualHeadings(doc, name) == { h \in H1Headings(doc) : TextEquals(h.text, name) }

\* The lookups made so far: << document, section name >>.
Lookups ==
  { << calls[k].doc, calls[k].name >> : k \in CallsOf({"prependToSection", "appendToSection"}) }
    \cup (IF readArg # Absent THEN { << storeContent, readArg >> } ELSE {})

\* C4: for every document and section name the lookup selects a heading if
\* and only if the heading's inner text equals the name (white space and
\* letter case ignored), and reports not-found, and nothing else, when there
\* is no such heading.
C4_LookupIsTextEquality ==
  \A l \in Lookups :
    LET r  == FindHeader(l[1], l[2])
        eq == EqualHeadings(l[1], l[2])
    IN  /\ r.ok
        /\ r.found <=> eq # {}
        /\ r.found => \E h \in eq : h.start = r.index /\ h.end = r.index + r.length

\* ----------------------------------------------------------------- C5

\* The headings after the first of a set of headings.
RestOf(hs) == hs \ { FirstOf(hs) }

\* C5 as stated: with several matching headings every editing call resolves
\* to the first one, and the section it edits ends at the next <h1 ...> tag,
\* which lies before the second matching heading.
C5_EndsBeforeSecondMatch ==
  \A k \in CallsOf({"prependToSection", "appendToSection"}) :
    LET c  == calls[k]
        hs == MatchingHeadings(c.doc, c.name)
        e  == SectionEnd(c.doc, FirstOf(hs).end)
    IN  Cardinality(hs) >= 2 =>
          /\ c.res.ok
          /\ H1OpensAt(c.doc, e)
          /\ e < FirstOf(RestOf(hs)).start
          /\ c.res.val = InsertAt(c.doc,
                                  IF c.op = "prependToSection" THEN FirstOf(hs).end ELSE e,
                                  InsertedBlock(c.frag))

\* C5 amended: ... the section it edits ends at the next <h1 ...> tag, which
\* is the second matching heading itself when no other heading lies between
\* the two, and is never after the start of the second matching heading.
C5_FirstMatchWins ==
  \A k \in CallsOf({"prependToSection", "appendToSection"}) :
    LET c  == calls[k]
        hs == MatchingHeadings(c.doc, c.name)
        e  == SectionEnd(c.doc, FirstOf(hs).end)
    IN  Cardinality(hs) >= 2 =>
          /\ c.res.ok
          /\ H1OpensAt(c.doc, e)
          /\ e <= FirstOf(RestOf(hs)).start
          /\ c.res.val = InsertAt(c.doc,
                                  IF c.op = "prependToSection" THEN FirstOf(hs).end ELSE e,
                                  InsertedBlock(c.frag))

\* An append to a document with two matching headings that differ in letter
\* case and a heading of another name between them.
C5_Witness ==
  \E k \in CallsOf({"appendToSection"}) :
    LET c  == calls[k]
        hs == MatchingHeadings(c.doc, c.name)
    IN  /\ Cardinality(hs) >= 2
        /\ c.res.ok
        /\ FirstOf(hs).text # FirstOf(RestOf(hs)).text
        /\ SectionEnd(c.doc, FirstOf(hs).end) < FirstOf(RestOf(hs)).start

\* ----------------------------------------------------------------- C6

\* C6: when no h1 heading matches the section name, prependToSection and
\* appendToSection fail with the section-not-found error and return no
\* document, and the invocation ends without a call of noteStore.updateNote,
\* the store holding the note it held before.
C6_NotFoundLeavesStore ==
  \A k \in CallsOf({"prependToSection", "appendToSection"}) :
    LET c == calls[k]
    IN  MatchingHeadings(c.doc, c.name) = {} =>
          /\ ~c.res.ok
          /\ c.res.err = "SectionNotFound"
          /\ c.res.val = << >>
          /\ pc = "done"
          /\ outcome.kind = "error"
          /\ updateCalls = 0
          /\ storeContent = calls[1].doc

\* ----------------------------------------------------------------- C7

\* C7: appendToEnd inserts the block directly before the last </en-note> of
\* the document; on a document without </en-note> it fails with the
\* malformed-document error and returns no string, and the invocation ends
\* without writing the note back.
C7_AppendToEnd ==
  \A k \in CallsOf({"appendToEnd"}) :
    LET c   == calls[k]
        occ == { i \in 0..Len(c.doc) : OccursAt(c.doc, EndNote, i) }
    IN  IF occ # {}
        THEN /\ c.res.ok
             /\ c.res.val = InsertAt(c.doc, Max(occ), InsertedBlock(c.frag))
        ELSE /\ ~c.res.ok
             /\ c.res.err = "MissingEndTag"
             /\ c.res.val = << >>
             /\ pc = "done"
             /\ outcome.kind = "error"
             /\ updateCalls = 0
             /\ storeContent = c.doc

\* appendToEnd has failed on a note that has content but no closing tag.
C7_Witness ==
  \E k \in CallsOf({"appendToEnd"}) :
    /\ ~calls[k].res.ok
    /\ calls[k].doc # << >>
    /\ pc = "done"

\* ----------------------------------------------------------------- C8

\* C8: after appendToSection(doc, N, f) on a document with a section N, a
\* second lookup of N in the result finds the same heading, and the block
\* <div>escaped f</div> is the last thing in that section: the section of
\* the result ends directly after the block.
C8_RoundTrip ==
  \A k \in CallsOf({"appendToSection"}) :
    LET c  == calls[k]
        hs == MatchingHeadings(c.doc, c.name)
        h  == FirstOf(hs)
        p  == SectionEnd(c.doc, h.end)
        b  == InsertedBlock(c.frag)
        r2 == FindHeader(c.res.val, c.name)
    IN  hs # {} =>
          /\ c.res.ok
          /\ r2.ok /\ r2.found
          /\ r2.index = h.start
          /\ r2.index + r2.length = h.end
          /\ Slice(c.res.val, p, p + Len(b)) = b
          /\ SectionEnd(c.res.val, h.end) = p + Len(b)

\* An append, to a section with content, of a text that spells a heading of
\* the section's own name.
C8_Witness ==
  \E k \in CallsOf({"appendToSection"}) :
    LET c  == calls[k]
        hs == MatchingHeadings(c.doc, c.name)
    IN  /\ hs # {}
        /\ c.res.ok
        /\ \E i \in 1..Len(c.frag) : c.frag[i] = "<"
        /\ SectionEnd(c.doc, FirstOf(hs).end) > FirstOf(hs).end

\* ----------------------------------------------------------------- C9

\* The section of the first matching heading of doc has no content.
EmptySection(doc, name) ==
  LET hs == MatchingHeadings(doc, name)
  IN  hs # {} /\ SectionEnd(doc, FirstOf(hs).end) = FirstOf(hs).end

\* C9: an invocation given --prepend and --append calls prependToSection
\* first and appendToSection on its result; on a section with no content the
\* result then holds, directly after the heading, the prepended block
\* directly followed by the appended block, and the section ends there.
C9_PrependThenAppend ==
  /\ (Len(calls) >= 1 /\ opts.prepend # Absent) => calls[1].op = "prependToSection"
  /\ Len(calls) = 2 =>
       LET c1 == calls[1]
           c2 == calls[2]
           h  == FirstOf(MatchingHeadings(c1.doc, c1.name))
           b1 == InsertedBlock(c1.frag)
           b2 == InsertedBlock(c2.frag)
       IN  /\ c1.op = "prependToSection" /\ c2.op = "appendToSection"
           /\ c1.frag = opts.prepend /\ c2.frag = opts.append
           /\ c2.doc = c1.res.val
           /\ EmptySection(c1.doc, c1.name) =>
                /\ c2.res.ok
                /\ c2.res.val = InsertAt(c1.doc, h.end, b1 \o b2)
                /\ SectionEnd(c2.res.val, h.end) = h.end + Len(b1) + Len(b2)

\* A prepend and an append, of texts that spell a heading, to an empty
\* section that is followed by another heading.
C9_Witness ==
  /\ Len(calls) = 2
  /\ EmptySection(calls[1].doc, calls[1].name)
  /\ calls[2].res.ok
  /\ \E i \in 1..Len(calls[1].frag) : calls[1].frag[i] = "<"
  /\ H1OpensAt(calls[1].doc, FirstOf(MatchingHeadings(calls[1].doc, calls[1].name)).end)

\* ----------------------------------------------------------------- C10

H2Open  == << "<", "h", "2", ">" >>
H2Close == << "<", "/", "h", "2", ">" >>

\* The h2 sub-headings that lie in the body [from, to) of a section: the
\* offsets of their opening tags.
SubHeadings(doc, from, to) ==
  { i \in from..(to - 1) :
      /\ OccursAt(doc, H2Open, i)
      /\ \E j \in i..(to - Len(H2Close)) : OccursAt(doc, H2Close, j) }

\* The offset just after the sub-heading that opens at i, and its text.
SubHeadingEnd(doc, i) ==
  Min({ j \in i..Len(doc) : OccursAt(doc, H2Close, j) }) + Len(H2Close)
SubHeadingText(doc, i) ==
  Slice(doc, i + Len(H2Open), SubHeadingEnd(doc, i) - Len(H2Close))

Contains(text, sub) == \E i \in 0..Len(text) : OccursAt(text, sub, i)

\* C10 for appendToSection: a sub-heading in the body of the section is no
\* boundary; the block goes after it and its content, at the next <h1 ...>
\* tag or the closing wrapper.
C10_AppendPastSubHeading ==
  \A k \in CallsOf({"appendToSection"}) :
    LET c  == calls[k]
        hs == MatchingHeadings(c.doc, c.name)
        h  == FirstOf(hs)
        e  == SectionEnd(c.doc, h.end)
    IN  (hs # {} /\ SubHeadings(c.doc, h.end, e) # {}) =>
          /\ c.res.ok
          /\ \A i \in SubHeadings(c.doc, h.end, e) :
               Slice(c.res.val, 0, SubHeadingEnd(c.doc, i))
                 = Slice(c.doc, 0, SubHeadingEnd(c.doc, i))
          /\ c.res.val = InsertAt(c.doc, e, InsertedBlock(c.frag))

\* C10 for extractSection: the text it returns for a section with a
\* sub-heading in its body includes the sub-heading's text.
C10_ExtractHasSubHeading ==
  (pc = "done" /\ readArg # Absent) =>
    LET hs == MatchingHeadings(storeContent, readArg)
        h  == FirstOf(hs)
        e  == SectionEnd(storeContent, h.end)
    IN  (hs # {} /\ SubHeadings(storeContent, h.end, e) # {}) =>
          /\ outcome.kind = "section"
          /\ \A i \in SubHeadings(storeContent, h.end, e) :
               Contains(outcome.text, SubHeadingText(storeContent, i))

\* C10: section boundaries are pinned to h1, for appendToSection and for
\* extractSection.
C10_PinnedToH1 == C10_AppendPastSubHeading /\ C10_ExtractHasSubHeading

\* ------------------------------------------- vocabulary of C11 to C19

\* What wrapEnml puts before and after the body.
DocPrefix == ENML_HEADER \o Newline \o EnNoteOpen \o Newline
DocSuffix == Newline \o EndNote

\* The part of a wrapped document between prefix and suffix.
BodyOf(doc) == Slice(doc, Len(DocPrefix), Len(doc) - Len(DocSuffix))

\* The create-note invocation has built note.content from --content (or
\* from the empty text) in the given format.
Built(format) ==
  /\ pc \in {"createNote", "done"}
  /\ createOpts.template # "sprint"
  /\ IF createOpts.content = Absent THEN format = "plain"
     ELSE format = (IF createOpts.format = NoFormat THEN "markdown" ELSE createOpts.format)

\* The offsets at which lit occurs in text, and the number of them.
Occurrences(text, lit) == { i \in 0..Len(text) : OccursAt(text, lit, i) }
Count(text, lit) == Cardinality(Occurrences(text, lit))

Entities == { AmpEntity, LtEntity, GtEntity, QuotEntity }
Reserved == { "&", "<", ">", "\"" }
HasAny(text, chars) == \E i \in 1..Len(text) : text[i] \in chars

\* ----------------------------------------------------------------- C11

\* C11: the fragment built for format plain from a text x has no '"', no
\* '<' or '>' other than those of <br/> elements, no newline, every '&' in
\* it starts one of &amp; &lt; &gt; &quot;, and it has as many <br/> as x
\* has newlines.
C11_PlainFragmentEscaped ==
  Built("plain") =>
    LET x    == createOpts.content
        frag == BodyOf(noteContent)
    IN  /\ noteContent = DocPrefix \o frag \o DocSuffix
        /\ \A i \in 1..Len(frag) :
             /\ frag[i] # "\"" /\ frag[i] # "\n"
             /\ frag[i] = "<" => OccursAt(frag, Br, i - 1)
             /\ frag[i] = ">" => OccursAt(frag, Br, i - Len(Br))
             /\ frag[i] = "&" => \E e \in Entities : OccursAt(frag, e, i - 1)
        /\ Count(frag, Br) = Count(x, Newline)

\* A plain fragment built from a text with '&', '"', '<', '>' and newlines.
C11_Witness ==
  /\ Built("plain")
  /\ \A ch \in Reserved \cup {"\n"} : HasAny(createOpts.content, {ch})
  /\ Count(BodyOf(noteContent), Br) >= 2

\* ----------------------------------------------------------------- C12

\* C12: escaping the plain fragment of a text x once more changes it when x
\* has one of '&', '<', '>', '"' (the '&' of each entity becomes &amp;), and
\* the fragment is x itself when x has none of them and no newline.
C12_EscapeNotIdempotent ==
  Built("plain") =>
    LET x     == createOpts.content
        once  == BodyOf(noteContent)
        twice == escapeForEnml(once)
    IN  /\ HasAny(x, Reserved) =>
             /\ twice # once
             /\ Count(twice, AmpEntity) = Count(once, << "&" >>)
             /\ Len(twice) > Len(once)
        /\ ~HasAny(x, Reserved \cup {"\n"}) => once = x /\ twice = x

\* A plain fragment built from a text with '<' and no '&'.
C12_Witness ==
  /\ Built("plain")
  /\ HasAny(createOpts.content, {"<"})
  /\ ~HasAny(createOpts.content, {"&"})

\* ----------------------------------------------------------------- C13

\* C13: the document built for format markdown or plain starts with the
\* header, has exactly one <en-note> and exactly one </en-note>, and
\* between them holds the converted fragment and nothing else.
C13_OneRootWrapper ==
  (Built("markdown") \/ Built("plain")) =>
    LET format == IF Built("plain") THEN "plain" ELSE "markdown"
        frag   == toEnmlBody(createOpts.content, format)
    IN  /\ Slice(noteContent, 0, Len(ENML_HEADER)) = ENML_HEADER
        /\ Count(noteContent, EnNoteOpen) = 1
        /\ Count(noteContent, EndNote) = 1
        /\ noteContent = DocPrefix \o frag \o DocSuffix

\* ----------------------------------------------------------------- C14

UnknownFormat ==
  /\ createOpts.format \notin { NoFormat, "markdown", "plain", "enml" }
  /\ createOpts.template # "sprint"
  /\ createOpts.content # Absent

\* C15: with an unrecognized format no fragment or document is returned
\* (toEnmlBody and toEnmlDocument fail), create-note ends with an error, and
\* no note is passed to noteStore.createNote.
C15_InvalidFormatFailsFast ==
  (UnknownFormat /\ pc \in {"createNote", "done"}) =>
    /\ noteContent = Undefined
    /\ created = << >>
    /\ pc = "done" => outcome.kind = "error"

\* ----------------------------------------------------------------- C16

Disallowed ==
  { << "<", "s", "c", "r", "i", "p", "t" >>,
    << "<", "s", "t", "y", "l", "e" >>,
    << "<", "f", "o", "r", "m" >>,
    << "<", "i", "f", "r", "a", "m", "e" >>,
    << "<", "o", "b", "j", "e", "c", "t" >>,
    << "<", "e", "m", "b", "e", "d" >>,
    << "<", "a", "p", "p", "l", "e", "t" >> }

\* C16: the fragment built for format markdown has none of the elements
\* script, style, form, iframe, object, embed, applet.
C16_NoDisallowedElements ==
  Built("markdown") =>
    \A d \in Disallowed : Count(BodyOf(noteContent), d) = 0

\* ----------------------------------------------------------------- C17

\* The tag that opens at offset i of text is closed by "/>".
SelfClosedAt(text, i) ==
  LET ends == { e \in (i + 1)..Len(text) : text[e] = ">" }
  IN  ends # {} /\ text[Min(ends) - 1] = "/"

VoidTags == { << "<", "b", "r" >>, << "<", "h", "r" >>, << "<", "i", "m", "g" >> }

ImgPlain  == << "<", "i", "m", "g", " ", "s", "r", "c", "=", "\"", "x", "\"", " ", "a",
   "l", "t", "=", "\"", "x", "\"", "/", ">" >>
ImgTitled == << "<", "i", "m", "g", " ", "s", "r", "c", "=", "\"", "x", "\"", " ", "a",
   "l", "t", "=", "\"", "x", "\"", " ", "t", "i", "t", "l", "e", "=", "\"",
   "x", "\"", "/", ">" >>

\* C17: in the fragment built for format markdown every br, hr and img tag
\* is self-closing, and each image of the text is there with src and alt,
\* and with title exactly when it has one.
C17_VoidElementsSelfClosed ==
  Built("markdown") =>
    LET x    == createOpts.content
        frag == BodyOf(noteContent)
    IN  /\ \A t \in VoidTags : \A i \in Occurrences(frag, t) : SelfClosedAt(frag, i)
        /\ Count(frag, ImgPlain) = Count(x, MdImage.src)
        /\ Count(frag, ImgTitled) = Count(x, MdImageT.src)
        /\ Count(frag, << "<", "i", "m", "g" >>)
             = Count(x, MdImage.src) + Count(x, MdImageT.src)

\* ----------------------------------------------------------------- C18

RECURSIVE SortedSeq(_)
\* The members of a finite set of numbers, in rising order.
SortedSeq(S) == IF S = {} THEN << >> ELSE << Min(S) >> \o SortedSeq(S \ {Min(S)})

RECURSIVE CellsOfRows(_)
CellsOfRows(rows) ==
  IF rows = << >> THEN << >> ELSE Head(rows) \o CellsOfRows(Tail(rows))

RECURSIVE SourceCells(_)
\* The table cells of a token list, in document order.
SourceCells(tokens) ==
  IF tokens = << >> THEN << >>
  ELSE (IF Head(tokens).type = "table"
        THEN Head(tokens).header \o CellsOfRows(Head(tokens).rows)
        ELSE << >>) \o SourceCells(Tail(tokens))

\* The offsets of the th and td opening tags of a fragment.
CellStarts(frag) ==
  { i \in 0..(Len(frag) - 4) :
      /\ frag[i + 1] = "<" /\ frag[i + 2] = "t" /\ frag[i + 3] \in {"h", "d"}
      /\ frag[i + 4] \in {" ", ">"} }

\* The opening tag at offset i, and the value of its style attribute.
OpenTagAt(frag, i) == Slice(frag, i, Min({ e \in (i + 1)..Len(frag) : frag[e] = ">" }))
StyleOf(tag) ==
  LET key == << " ", "s", "t", "y", "l", "e", "=", "\"" >>
      from == IndexOf(tag, key) + Len(key)
  IN  IF IndexOf(tag, key) = -1 THEN << >>
      ELSE Slice(tag, from, Min({ e \in from..(Len(tag) - 1) : tag[e + 1] = "\"" }))

CssBorder     == << "b", "o", "r", "d", "e", "r", ":" >>
CssPadding    == << "p", "a", "d", "d", "i", "n", "g", ":" >>
CssBackground == << "b", "a", "c", "k", "g", "r", "o", "u", "n", "d", "-", "c", "o", "l",
   "o", "r", ":" >>
CssBold       == << "f", "o", "n", "t", "-", "w", "e", "i", "g", "h", "t", ":", " ", "b",
   "o", "l", "d", ";" >>
CssAlign      == << "t", "e", "x", "t", "-", "a", "l", "i", "g", "n", ":" >>
CssAlignTo(a) == << "t", "e", "x", "t", "-", "a", "l", "i", "g", "n", ":", " " >> \o AlignText(a) \o << ";" >>
ClassAttr     == << " ", "c", "l", "a", "s", "s", "=" >>

\* C18: the k-th th/td of the fragment is the k-th table cell of the text:
\* th for a header cell and td otherwise; style with border and padding;
\* background and bold exactly for header cells; text-align the declared
\* alignment, else left for a header cell, else absent; no class attribute.
C18_TableCellStyle ==
  Built("markdown") =>
    LET frag   == BodyOf(noteContent)
        cells  == SourceCells(Lex(createOpts.content))
        starts == SortedSeq(CellStarts(frag))
    IN  /\ Len(starts) = Len(cells)
        /\ Count(frag, ClassAttr) = 0
        /\ \A k \in 1..Len(cells) :
             LET tag   == OpenTagAt(frag, starts[k])
                 style == StyleOf(tag)
                 cell  == cells[k]
             IN  /\ tag[3] = (IF cell.header THEN "h" ELSE "d")
                 /\ Count(style, CssBorder) = 1 /\ Count(style, CssPadding) = 1
                 /\ Count(style, CssBackground) = (IF cell.header THEN 1 ELSE 0)
                 /\ Count(style, CssBold) = (IF cell.header THEN 1 ELSE 0)
                 /\ IF cell.align # NoAlign
                    THEN Count(style, CssAlignTo(cell.align)) = 1 /\ Count(style, CssAlign) = 1
                    ELSE IF cell.header
                         THEN Count(style, CssAlignTo("left")) = 1 /\ Count(style, CssAlign) = 1
                         ELSE Count(style, CssAlign) = 0

\* A markdown fragment with a table (header and data cells, with and
\* without a declared alignment) next to another block.
C18_Witness ==
  /\ Built("markdown")
  /\ Len(SourceCells(Lex(createOpts.content))) >= 6
  /\ Len(Lex(createOpts.content)) >= 2
  /\ \E c \in { SourceCells(Lex(createOpts.content))[k] :
                  k \in 1..Len(SourceCells(Lex(createOpts.content))) } :
       c.header /\ c.align = "right"

\* ----------------------------------------------------------------- C19

\* C19: the block an editing call of update-note inserts for a text is the
\* markdown conversion of the text, toEnmlBody(text, 'markdown'), on its
\* own or inside the <div> container.
C19_UpdateInsertsMarkdown ==
  \A k \in DOMAIN calls :
    LET c  == calls[k]
        md == toEnmlBody(c.frag, "markdown")
    IN  (c.res.ok /\ c.frag \in Contents) =>
          \E p \in 0..Len(c.doc) :
            \/ c.res.val = InsertAt(c.doc, p, md)
            \/ c.res.val = InsertAt(c.doc, p, DivOpen \o md \o DivClose)

\* ----------------------------------------------------------------- C20

\* C20: for a section name that matches an h1 heading, extractSection
\* returns the tag-stripped text of the region from just after the first
\* matching heading to the next <h1 ...> tag, else to the closing
\* </en-note> after it, else to the end of the string; read-note prints that
\* text, and reports the section as not found when the text is empty.
C20_ExtractExactRegion ==
  (pc = "done" /\ readArg # Absent) =>
    LET hs   == MatchingHeadings(storeContent, readArg)
        h    == FirstOf(hs)
        text == stripEnml(Slice(storeContent, h.end, SectionEnd(storeContent, h.end)))
    IN  hs # {} =>
          IF text = << >>
          THEN outcome = [kind |-> "sectionNotFound"]
          ELSE outcome = [kind |-> "section", text |-> text]

\* ------------------------------------------------------ vocabulary of C21

\* The argument at position i is an option: it starts with '--'.
IsOption(i) == StartsWithDashes(argv[i])

\* The text of an option after the dashes, and where its first '=' is.
OptionText(i) == SliceFrom(argv[i], 2)
FirstEquals(i) == IndexOf(OptionText(i), Equals)

\* The key an option names: the text before the first '=', else all of it.
KeyOf(i) ==
  IF FirstEquals(i) = -1 THEN OptionText(i) ELSE Slice(OptionText(i), 0, FirstEquals(i))

\* The argument at position i is taken as the value of the option before it.
TakesNext(i) ==
  /\ IsOption(i) /\ FirstEquals(i) = -1
  /\ i + 1 <= Len(argv) /\ ~StartsWithDashes(argv[i + 1])

\* The value an option sets: the whole text after the first '=', else the
\* following argument when that is not an option, else true.
ValueOf(i) ==
  IF FirstEquals(i) # -1 THEN StringValue(SliceFrom(OptionText(i), FirstEquals(i) + 1))
  ELSE IF TakesNext(i) THEN StringValue(argv[i + 1])
  ELSE TrueValue

Options == { i \in 1..Len(argv) : IsOption(i) }

\* The last option that names the key k.
LastOf(k) == Max({ i \in Options : KeyOf(i) = k })

\* ----------------------------------------------------------------- C21

\* C21: the record parseArgs returns has exactly the keys the options
\* name, and each key holds the value of the last option naming it: the
\* whole text after the first '=' of '--k=v' (also when v contains '='),
\* the following argument of '--k' when that argument is not an option,
\* else true; arguments that are not options set nothing.
C21_ParseArgsForms ==
  pc = "parsed" =>
    /\ DOMAIN args = { KeyOf(i) : i \in Options }
    /\ \A k \in DOMAIN args : args[k] = ValueOf(LastOf(k))

\* ------------------------------------------- vocabulary of C22 to C24, C30

\* The options of the invocation that ask for an edit.
WantsPrepend == opts.prepend # Absent
WantsAppend  == opts.append # Absent
WantsAdd     == opts.addTags # NoList
WantsRemove  == opts.removeTags # NoList

\* The invocation has ended with an error report.
Failed == pc = "done" /\ outcome.kind = "error"

\* No write of the invocation reached the store: no createTag call and no
\* updateNote call resolved.
NoStoreWrite == createdTags = << >> /\ outcome.kind # "updated"

\* ----------------------------------------------------------------- C22

\* C22: an invocation with --prepend and without --section ends with an
\* error, whatever --append, --add-tags and --remove-tags say: no editing
\* function is called, the tag branches are not entered, no tag is created,
\* noteStore.updateNote is not called, and when the note was fetched the
\* store still holds the content and the tag identifiers that were fetched.
C22_PrependRequiresSection ==
  (pc = "done" /\ WantsPrepend /\ opts.section = Absent) =>
    /\ Failed
    /\ calls = << >>
    /\ tagIdx = 0 /\ tagsToAdd = << >> /\ createdTags = << >>
    /\ updateCalls = 0
    /\ outcome.err \in {"PrependRequiresSection", "StoreError"}
    /\ outcome.err = "PrependRequiresSection" =>
         (content = storeContent /\ tagGuids = storeTagGuids /\ ~modified)

C22_Witness ==
  /\ pc = "done" /\ WantsPrepend /\ opts.section = Absent
  /\ WantsAppend /\ WantsAdd /\ WantsRemove
  /\ outcome.err = "PrependRequiresSection"
  /\ storeContent # << >> /\ storeTagGuids # << >>

\* ----------------------------------------------------------------- C23

\* The tags of the store that carry a name, letter case ignored.
TagsNamed(name) ==
  { i \in 1..Len(storeTags) : ToLowerCase(storeTags[i].name) = ToLowerCase(name) }

\* A list of identifiers holds none of them twice.
NoRepeat(guids) ==
  \A i, j \in 1..Len(guids) : guids[i] = guids[j] => i = j

\* C23: when the add-tags branch has completed (and --remove-tags is not
\* given), the note about to be written, and then written, holds every
\* identifier the fetched note had, holds the identifier of a store tag of
\* every name in the list, holds no identifier twice, and the store has
\* exactly one tag of each name in the list, so a missing tag was created
\* once.
C23_AddTagsIsSetUnion ==
  (WantsAdd /\ ~WantsRemove /\ (pc = "update" \/ (pc = "done" /\ outcome.kind = "updated"))) =>
    /\ pc = "update" => \A i \in 1..Len(storeTagGuids) : Includes(tagGuids, storeTagGuids[i])
    /\ pc = "done" => storeTagGuids = tagGuids
    /\ \A n \in 1..Len(opts.addTags) :
         /\ \E i \in TagsNamed(opts.addTags[n]) : Includes(tagGuids, storeTags[i].guid)
         /\ Cardinality(TagsNamed(opts.addTags[n])) = 1
    /\ NoRepeat(tagGuids)
    /\ \A i, j \in 1..Len(createdTags) :
         ToLowerCase(createdTags[i].name) = ToLowerCase(createdTags[j].name) => i = j

\* ----------------------------------------------------------------- C24

AnyWanted == WantsPrepend \/ WantsAppend \/ WantsAdd \/ WantsRemove

\* The invocation failed at the fetch or at an edit step, that is, at
\* anything but the updateNote call.
StepFailed ==
  /\ Failed
  /\ ~(outcome.err = "StoreError" /\ outcome.call = "updateNote")

\* Every edit the options ask for has been applied to the in-memory note.
AllEditsApplied ==
  /\ Len(calls) = (IF WantsPrepend THEN 1 ELSE 0) + (IF WantsAppend THEN 1 ELSE 0)
  /\ \A k \in 1..Len(calls) : calls[k].res.ok
  /\ calls # << >> => content = calls[Len(calls)].res.val
  /\ WantsAdd => tagIdx = Len(opts.addTags) + 1
  /\ WantsRemove =>
       \A n \in 1..Len(opts.removeTags) :
         \A i \in TagsNamed(opts.removeTags[n]) : ~Includes(tagGuids, storeTags[i].guid)

\* C24: noteStore.updateNote is called at most once per invocation; when it
\* has been called the invocation is over and every requested content and
\* tag edit had been applied to the note that was passed; at the end it has
\* been called exactly when an edit option was given and neither the fetch
\* nor an edit step failed; with no edit option the run reports no change
\* and writes nothing.
C24_OneWriteAfterAllEdits ==
  /\ updateCalls <= 1
  /\ updateCalls = 1 => (pc = "done" /\ modified /\ AllEditsApplied)
  /\ outcome.kind = "updated" => (storeContent = content /\ storeTagGuids = tagGuids)
  /\ pc = "done" => (updateCalls = 1 <=> (AnyWanted /\ ~StepFailed))
  /\ (pc = "done" /\ ~AnyWanted /\ ~StepFailed) =>
       (outcome.kind = "nochange" /\ NoStoreWrite)

C24_Witness ==
  /\ pc = "done" /\ outcome.kind = "updated" /\ updateCalls = 1
  /\ WantsPrepend /\ WantsAppend /\ WantsAdd /\ WantsRemove
  /\ createdTags # << >>

\* ----------------------------------------------------------------- C30

\* C30: when an invocation of update-note has ended with an error, whichever
\* call failed, no write of that invocation has taken effect in the store:
\* the note was not written and no tag that createTag made for --add-tags
\* is in the store.
C30_FailureLeavesStore ==
  Failed =>
    /\ outcome.kind # "updated"
    /\ createdTags = << >>

\* ----------------------------------------------------------------- C25

\* The names of the h1 headings of a document: their texts, trimmed.
HeadingNames(doc) == { Trim(h.text) : h \in H1Headings(doc) }

\* The names of the three sections of the sprint template.
SprintNames == { << "T", "a", "s", "k", "s" >>,
                 << "L", "i", "n", "k", "s" >>,
                 << "N", "o", "t", "e", "s" >> }

\* C25: read-note without --section lists one section for every distinct
\* h1 heading name of the note, also for sections with no text; a note
\* made from the sprint template lists Tasks, Links and Notes.
C25_AllSectionsListed ==
  (pc = "done" /\ readArg = Absent) =>
    /\ HeadingNames(storeContent) # {} =>
         /\ outcome.kind = "sections"
         /\ DOMAIN outcome.sections = HeadingNames(storeContent)
    /\ storeContent = generateSprintTemplate =>
         /\ outcome.kind = "sections"
         /\ DOMAIN outcome.sections = SprintNames

\* ------------------------------------------- vocabulary of C26 to C29

\* The h1 headings of a document in document order, as their texts.
HeadingTexts(doc) ==
  LET starts == SortedSeq({ h.start : h \in H1Headings(doc) })
  IN  [ i \in 1..Len(starts) |-> HeadingAt(doc, starts[i]).text ]

\* The block the editor makes of a text: the escaped text in a div.
BlockOf(f) == DivOpen \o Escaped(f) \o DivClose

\* ----------------------------------------------------------------- C26

\* C26: after any sequence of successful prependToSection, appendToSection
\* and appendToEnd calls, with any texts, the document has the h1 headings
\* of the initial document (same texts, same order) and as many </en-note>
\* closing tags as the initial document.
C26_HeadingsInvariant ==
  /\ HeadingTexts(document) = HeadingTexts(initial)
  /\ Count(document, EndNote) = Count(initial, EndNote)

C26_Witness ==
  /\ Len(history) = 2
  /\ history[1].op = "prependToSection" /\ Contains(history[1].frag, H1Close)
  /\ history[2].op = "appendToEnd" /\ Contains(history[2].frag, EndNote)
  /\ Len(HeadingTexts(initial)) = 3

\* ----------------------------------------------------------------- C27

\* The call c made again on a document.
Redo(c, doc) ==
  CASE c.op = "prependToSection" -> prependToSection(doc, c.name, c.frag)
    [] c.op = "appendToSection"  -> appendToSection(doc, c.name, c.frag)
    [] OTHER                     -> appendToEnd(doc, c.frag)

SectionCall(c) == c.op \in {"prependToSection", "appendToSection"}

\* The names n1 and n2 resolve to different headings of the document.
DistinctSections(doc, n1, n2) ==
  /\ MatchingHeadings(doc, n1) # {} /\ MatchingHeadings(doc, n2) # {}
  /\ FirstOf(MatchingHeadings(doc, n1)).start # FirstOf(MatchingHeadings(doc, n2)).start

\* The content of the section a name resolves to: from the end of its
\* heading to the end of the section.
SectionBody(doc, name) ==
  LET h == FirstOf(MatchingHeadings(doc, name))
  IN  Slice(doc, h.end, SectionEnd(doc, h.end))

\* C27: two section edits in a row that address different sections give
\* the same document when made in the other order, appends and prepends
\* alike; and a section edit leaves the content of every other section as
\* it was.
C27_DistinctSectionsCommute ==
  /\ Len(history) >= 2 =>
       LET c1 == history[Len(history) - 1]
           c2 == history[Len(history)]
       IN  (SectionCall(c1) /\ SectionCall(c2) /\ DistinctSections(c1.doc, c1.name, c2.name)) =>
              LET r2 == Redo(c2, c1.doc)
              IN  /\ r2.ok
                  /\ Redo(c1, r2.val).ok
                  /\ Redo(c1, r2.val).val = document
  /\ \A k \in 1..Len(history) :
       SectionCall(history[k]) =>
         \A name \in EditNames :
           DistinctSections(history[k].doc, history[k].name, name) =>
             /\ DistinctSections(history[k].res.val, history[k].name, name)
             /\ SectionBody(history[k].res.val, name) = SectionBody(history[k].doc, name)

C27_Witness ==
  /\ Len(history) = 2
  /\ history[1].op = "appendToSection" /\ history[1].name = << "a" >>
  /\ history[2].op = "prependToSection" /\ history[2].name = << "b" >>
  /\ DistinctSections(initial, << "a" >>, << "b" >>)
  /\ SectionBody(initial, << "b" >>) # << >>
  /\ FirstOf(MatchingHeadings(initial, << "a" >>)).start
       < FirstOf(MatchingHeadings(initial, << "b" >>)).start

\* ----------------------------------------------------------------- C28

\* The calls i..j of the history are all calls of op on the section name.
RunOf(op, name, i, j) ==
  \A k \in i..j : history[k].op = op /\ history[k].name = name

\* The blocks of the calls i..j, oldest first, and newest first.
RECURSIVE OldestFirst(_, _)
OldestFirst(i, j) ==
  IF i > j THEN << >> ELSE BlockOf(history[i].frag) \o OldestFirst(i + 1, j)

RECURSIVE NewestFirst(_, _)
NewestFirst(i, j) ==
  IF i > j THEN << >> ELSE BlockOf(history[j].frag) \o NewestFirst(i, j - 1)

\* C28: after a run of two or more appendToSection calls on one section,
\* their blocks stand in call order directly before the section's end;
\* after a run of prependToSection calls on one section, their blocks stand
\* newest first directly after the section's heading.
C28_RepeatedEditsOrder ==
  \A i, j \in 1..Len(history) :
    i < j =>
      LET doc  == history[j].res.val
          name == history[j].name
          h    == FirstOf(MatchingHeadings(doc, name))
          e    == SectionEnd(doc, h.end)
      IN  /\ RunOf("appendToSection", name, i, j) =>
               /\ e - Len(OldestFirst(i, j)) >= h.end
               /\ Slice(doc, e - Len(OldestFirst(i, j)), e) = OldestFirst(i, j)
          /\ RunOf("prependToSection", name, i, j) =>
               Slice(doc, h.end, h.end + Len(NewestFirst(i, j))) = NewestFirst(i, j)

C28_Witness ==
  /\ Len(history) = 2
  /\ RunOf("appendToSection", << "a" >>, 1, 2)
  /\ history[1].frag # history[2].frag
  /\ SectionBody(initial, << "a" >>) # << >>

\* ----------------------------------------------------------------- C29

\* C29: the block each editing call inserts is '<div>', the text escaped
\* as escapeForEnml escapes it, and '</div>': the returned document is the
\* given one with that block inserted at one offset.
C29_EscapingAgrees ==
  \A k \in 1..Len(history) :
    LET c == history[k]
    IN  \E p \in 0..Len(c.doc) :
          c.res.val = InsertAt(c.doc, p, DivOpen \o escapeForEnml(c.frag) \o DivClose)
====
